---- MODULE Spec2Model ----
(***************************************************************************)
(* HackTVLive / rtl_tv: the composite-signal decoder (H-sync PLL, V-sync   *)
(* state machine, raster builder, display buffer) and the guards of the    *)
(* transmit pipeline.                                                      *)
(*                                                                         *)
(* Numbers that are float64 in the source are fixed-point integers here,   *)
(* in units of 1/Scale sample.  One decoder step is one iteration of the   *)
(* per-sample loop of ProcessIQ.  A sample is given by what the loop reads *)
(* of it: whether mag >= syncThreshold, and the brightness byte it yields. *)
(***************************************************************************)
EXTENDS Integers, Naturals, Sequences, FiniteSets, TLC

(***************************************************************************)
(* Bounds of the model.                                                    *)
(***************************************************************************)
\* Rows of the raster.  The source has 480; the row counter only has to
\* run past the V-sync region (the last 20 rows) and wrap.
FrameHeight == 22
\* Free-input exploration stops feeding the PLL once the integral term
\* has fallen below -MaxAccum (fixed-point units).
MaxAccum == 25
\* Free-input exploration does not let pixelCounter grow beyond this.
MaxPixelCounter == 3
\* Lines of the periodic trace that is fed to the decoder.
LockLines == 200
\* Lines of a composite frame and pixels of a raw line that the transmit
\* model follows (the source has 525 or 625 lines of 320 pixels).
GenLines == 2
GenPixels == 2
\* Frames ffmpeg delivers before its pipe closes.
MaxCaptures == 2
\* Samples the SDR asks for in one callback.
BufSamples == 3
\* ProcessIQ calls whose AGC update is followed, and how many of them may
\* each bring a different buffer (the later ones repeat the last buffer).
MaxAgcCalls == 200
FreeAgcCalls == 2
\* Frames rtl_tv writes to the player.
MaxFrames == 4
\* The run of above-threshold samples at the end of the input is counted
\* up to this length.
MaxRun == 4

(***************************************************************************)
(* Program constants.                                                      *)
(***************************************************************************)
FrameWidth == 540
VSyncSearchRows == 20
MaxSerrations == 6
MinSerrations == 3
\* -bw 0.32 and the default -bw 1.5, as SampleRateHz
LowSampleRate == 320000
DefaultSampleRate == 1500000

Scale == 10 ^ 4
\* the AGC estimates are fixed-point in units of 1/AgcScale
AgcScale == 10 ^ 2

StateSearchVSync == 0
StateInVSync == 1

\* n/d rounded to the nearest integer (d > 0), as float64 arithmetic rounds
Round(n, d) ==
    IF n >= 0 THEN (2 * n + d) \div (2 * d) ELSE -((d - 2 * n) \div (2 * d))

Abs(n) == IF n < 0 THEN -n ELSE n

VARIABLES
    sampleRate,             \* Decoder.sampleRate
    x, y,                   \* raster position
    pixelCounter,
    samplesPerLine,         \* fixed-point
    hSyncErrorAccumulator,  \* fixed-point
    vSyncState,
    vSyncSerrationCounter,
    frameBuffer,            \* the tracked pixels of frameBuffer
    displayBuffer,          \* the tracked pixels of displayBuffer
    \* the input stream
    mode,                   \* "any": arbitrary samples; "periodic": H-sync train
    delta,                  \* periodic: spacing is initialSamplesPerLine + delta
    tphase,                 \* periodic: time since the current pulse began
    lines,                  \* periodic: pulses begun so far
    hiRun,                  \* "runs": the samples with mag >= syncThreshold that end
                            \* the input read so far (counted up to MaxRun)
    \* observations of the last step
    event,                  \* what the last sample did
    wrote,                  \* <<y, pixelX, pixelIndex>> of the pixel the last step wrote, or <<>>
    longRun,                \* committed long pulses of the running V-sync sequence
    closedRun,              \* length of the sequence the last step's pulse ended, or 0
    afterVSync,             \* pulses and first write since the last V-sync confirmation
    \* the display buffer under frameMutex (decoder goroutine, display loop)
    frameMutex,             \* who holds Decoder.frameMutex, or "free"
    dpc,                    \* the decoder goroutine's position
    dcopied,                \* bytes the running copy(displayBuffer, frameBuffer) has done
    tpc,                    \* the display loop's position
    tcopied,                \* bytes the running copy(frameCopy, displayBuffer) has done
    frameCopy,              \* GetDisplayFrame's local slice
    lastFrame,              \* the frame GetDisplayFrame returned last
    swaps,                  \* displayBuffer as each completed copy left it, and as New left it
    \* the transmit pipeline
    standard,               \* "NTSC" or "PAL"
    testMode,               \* -test
    mpc,                    \* main's position
    wpc,                    \* the worker goroutine's position (ticker or capture)
    cpc,                    \* the SDR callback's position
    frameLock,              \* ntscFrameMutex / palFrameMutex
    rawLock,                \* rawFrameMutex
    gen,                    \* per task: where its GenerateFullFrame is
    seen,                   \* per task: the captured frames its GenerateFullFrame has read from
    rawFrameBuffer,         \* per line: the captured frame the line's pixels belong to
    compositeFrame,         \* per line: the task whose GenerateFullFrame wrote it last
    captured,               \* frames ffmpeg has delivered so far
    rawRow,                 \* lines the running io.ReadFull has filled
    sampleCounter,          \* the callback's cursor into the frame buffer
    samplesLeft,            \* samples the running callback still has to write
    cursorAtEntry,          \* sampleCounter when the last callback was entered
    samplesAsked,           \* len(buf)/2 of the last callback
    \* the NTSC synthesizer
    synRate,                \* NTSC.sampleRate
    rawColour,              \* the colour of the raw raster's pixels
    synLine,                \* the line GenerateFullFrame is at
    synStage,               \* "luma", "chroma", "store" or "done"
    lineBuffer,             \* the line under construction
    subcarrierPhase,        \* in 1/704 cycle
    ntscFrameBuffer,        \* the tracked samples of the composite frame
    ire,                    \* the sample the callback read last
    iSample,                \* the I byte the callback wrote for it
    \* the decoder's AGC
    iq,                     \* the buffer of the last ProcessIQ call
    smoothedMax,            \* fixed-point, 1/AgcScale
    smoothedMin,
    localMax,               \* the extrema the last call used
    localMin,
    prevSmoothedMax,        \* the estimates before the last call
    prevSmoothedMin,
    agcCalls,               \* ProcessIQ calls so far
    \* the copies of one GenerateFullFrame into the frame buffer
    stStandard,             \* "NTSC" or "PAL"
    stRate,                 \* sampleRate
    stLine,                 \* the line GenerateFullFrame is at
    stStage,                \* "generate", "copy" or "done"
    stLineLen,              \* len(lineBuffer)
    stWrites,               \* <<offset, count>> of every copy so far
    vToggle,                \* PAL: the V switch, +1 or -1
    stLineLog,              \* per line: burst offset in degrees (0: no burst),
                            \* vToggle, and the raster row of its luma (-1: none)
    \* rtl_tv's main, its SDR read goroutine and what they hold
    rxMain,                 \* where main is
    rxReader,               \* where the SDR read goroutine is
    rxCause,                \* why main left its loop: "none", "writeError", "signal"
    shutdown,               \* a signal is waiting in the shutdown channel
    frameTicker,            \* the ticker runs
    pipeOpen,               \* ffplay.Pipe has not been closed
    playerAlive,            \* the ffplay process runs
    dongleOpen,             \* the RTL-SDR device is open
    framesWritten,          \* frames written to ffplay.Pipe
    rxLog                   \* the deferred calls main has run, in order

decVars == <<sampleRate, x, y, pixelCounter, samplesPerLine, hSyncErrorAccumulator,
             vSyncState, vSyncSerrationCounter, frameBuffer, displayBuffer>>
envVars == <<mode, delta, tphase, lines, hiRun>>
obsVars == <<event, wrote, longRun, closedRun, afterVSync>>
dispVars == <<frameMutex, dpc, dcopied, tpc, tcopied, frameCopy, lastFrame, swaps>>
txVars == <<standard, testMode, mpc, wpc, cpc, frameLock, rawLock, gen, seen,
            rawFrameBuffer, compositeFrame, captured, rawRow, sampleCounter,
            samplesLeft, cursorAtEntry, samplesAsked>>
synVars == <<synRate, rawColour, synLine, synStage, lineBuffer, subcarrierPhase,
             ntscFrameBuffer, ire, iSample>>
agcVars == <<iq, smoothedMax, smoothedMin, localMax, localMin, prevSmoothedMax,
             prevSmoothedMin, agcCalls>>
stVars == <<stStandard, stRate, stLine, stStage, stLineLen, stWrites, vToggle, stLineLog>>
rxVars == <<rxMain, rxReader, rxCause, shutdown, frameTicker, pipeOpen, playerAlive,
            dongleOpen, framesWritten, rxLog>>
vars == <<decVars, envVars, obsVars, dispVars, txVars, synVars, agcVars, stVars, rxVars>>

(***************************************************************************)
(* decoder.New                                                             *)
(***************************************************************************)
\* lineDuration * sampleRate, lineDuration = 1/(30000/1001 * 525)
InitialSamplesPerLine(sr) == (sr * 1001) \div (15750000 \div Scale)
initialSamplesPerLine == InitialSamplesPerLine(sampleRate)
hSyncPulseWidth == (47 * sampleRate) \div 10000000
syncSearchWindow == ((initialSamplesPerLine * 20) \div 100) \div Scale
lineStartActiveVideo == (62 * sampleRate) \div 10000000
lineEndActiveVideo == lineStartActiveVideo + (526 * sampleRate) \div 10000000
FrameBufferLen == FrameWidth * FrameHeight * 3

\* The pixels of the raster whose contents the model follows: the first
\* pixel of row 0.
Tracked == {0}
ZeroFrame(px) == [p \in px |-> 0]

New(sr, px) ==
    /\ sampleRate = sr
    /\ x = 0
    /\ y = 0
    /\ pixelCounter = 0
    /\ samplesPerLine = InitialSamplesPerLine(sr)
    /\ hSyncErrorAccumulator = 0
    /\ vSyncState = StateSearchVSync
    /\ vSyncSerrationCounter = 0
    /\ frameBuffer = ZeroFrame(px)
    /\ displayBuffer = ZeroFrame(px)

InitObs ==
    /\ event = "new"
    /\ wrote = <<>>
    /\ longRun = 0
    /\ closedRun = 0
    /\ afterVSync = "none"

(***************************************************************************)
(* ProcessIQ: the H-sync PLL                                               *)
(***************************************************************************)
\* Clamp without the clamping
ClampMissing(spl) == spl

\* decoder.go:139-144
Clamp(spl) ==
    IF spl * 100 < initialSamplesPerLine * 95
    THEN Round(initialSamplesPerLine * 95, 100)
    ELSE IF spl * 100 > initialSamplesPerLine * 105
         THEN Round(initialSamplesPerLine * 105, 100)
         ELSE spl

\* PLLError with the operands exchanged
PLLErrorReversed(xx, spl) == spl - xx * Scale
\* decoder.go:125: error := float64(d.x) - d.samplesPerLine
PLLError(xx, spl) == xx * Scale - spl
\* decoder.go:131: d.hSyncErrorAccumulator += error * Ki   (Ki = 0.0001)
PLLAccumulate(acc, err) == acc + Round(err, 10000)
\* decoder.go:132: correction := (error * Kp) + d.hSyncErrorAccumulator  (Kp = 0.002)
PLLCorrection(acc, err) == Round(err * 2, 1000) + acc
\* decoder.go:136-144
PLLSamplesPerLine(xx, spl, acc) ==
    Clamp(spl + PLLCorrection(PLLAccumulate(acc, PLLError(xx, spl)), PLLError(xx, spl)))

(***************************************************************************)
(* ProcessIQ: sync detection                                               *)
(***************************************************************************)
InSearchWindow == x < syncSearchWindow
\* decoder.go:111
FoundPulse == pixelCounter > hSyncPulseWidth \div 2
\* decoder.go:114
isLongPulse == pixelCounter > hSyncPulseWidth * 2
\* decoder.go:119
NearFrameEnd == y > FrameHeight - VSyncSearchRows
\* SequenceContinues without the limit of MaxSerrations
SequenceContinuesUnbounded == isLongPulse
\* decoder.go:152
SequenceContinues == isLongPulse /\ vSyncSerrationCounter < MaxSerrations
\* VSyncConfirmed asking for one serration more
VSyncConfirmedStrict == vSyncSerrationCounter > MinSerrations
\* decoder.go:156
VSyncConfirmed == vSyncSerrationCounter >= MinSerrations

\* a sample commits a sync pulse: decoder.go:107-111
Commits(hi) == InSearchWindow /\ ~hi /\ FoundPulse

\* the running sequence of long pulses, as the input shows it: it begins
\* with a long pulse met in SearchVSync near the frame end, and a committed
\* pulse that is not long, or that follows MaxSerrations long ones, ends it
RunExtends ==
    IF longRun = 0
    THEN vSyncState = StateSearchVSync /\ NearFrameEnd /\ isLongPulse
    ELSE isLongPulse /\ longRun < MaxSerrations

\* afterVSync: "fresh" from a confirmation until a pulse ("pulsed") or a
\* write ("drawnFresh", "drawnPulsed"); "none" otherwise
PulseAfterVSync ==
    IF afterVSync \in {"fresh", "pulsed"} THEN "pulsed" ELSE "none"
DrawAfterVSync(draws) ==
    CASE afterVSync = "fresh" -> IF draws THEN "drawnFresh" ELSE "fresh"
      [] afterVSync = "pulsed" -> IF draws THEN "drawnPulsed" ELSE "pulsed"
      [] OTHER -> "none"

\* VSyncStart that does not count the pulse it starts with
VSyncStartCountsFromZero ==
    /\ vSyncState = StateSearchVSync
    /\ NearFrameEnd /\ isLongPulse
    /\ vSyncState' = StateInVSync
    /\ vSyncSerrationCounter' = 0
    /\ pixelCounter' = 0
    /\ event' = "vstart"
    /\ afterVSync' = PulseAfterVSync
    /\ UNCHANGED <<x, y, samplesPerLine, hSyncErrorAccumulator, frameBuffer, displayBuffer>>

\* decoder.go:119-121
VSyncStart ==
    /\ vSyncState = StateSearchVSync
    /\ NearFrameEnd /\ isLongPulse
    /\ vSyncState' = StateInVSync
    /\ vSyncSerrationCounter' = 1
    /\ pixelCounter' = 0
    /\ event' = "vstart"
    /\ afterVSync' = PulseAfterVSync
    /\ UNCHANGED <<x, y, samplesPerLine, hSyncErrorAccumulator, frameBuffer, displayBuffer>>

\* decoder.go:122-149
HSyncPLL ==
    /\ vSyncState = StateSearchVSync
    /\ ~(NearFrameEnd /\ isLongPulse)
    /\ hSyncErrorAccumulator' = PLLAccumulate(hSyncErrorAccumulator, PLLError(x, samplesPerLine))
    /\ mode \in {"any", "runs"} => hSyncErrorAccumulator' >= -MaxAccum
    /\ samplesPerLine' = PLLSamplesPerLine(x, samplesPerLine, hSyncErrorAccumulator)
    /\ y' = y + 1
    /\ x' = 0
    /\ pixelCounter' = 0
    /\ event' = "hsync"
    /\ afterVSync' = PulseAfterVSync
    /\ UNCHANGED <<vSyncState, vSyncSerrationCounter, frameBuffer, displayBuffer>>

\* VSyncCount that counts the sample in x
VSyncCountAdvances ==
    /\ vSyncState = StateInVSync
    /\ SequenceContinues
    /\ vSyncSerrationCounter' = vSyncSerrationCounter + 1
    /\ pixelCounter' = 0
    /\ x' = x + 1
    /\ event' = "vcount"
    /\ afterVSync' = PulseAfterVSync
    /\ UNCHANGED <<y, samplesPerLine, hSyncErrorAccumulator, vSyncState,
                   frameBuffer, displayBuffer>>

\* decoder.go:152-153
VSyncCount ==
    /\ vSyncState = StateInVSync
    /\ SequenceContinues
    /\ vSyncSerrationCounter' = vSyncSerrationCounter + 1
    /\ pixelCounter' = 0
    /\ event' = "vcount"
    /\ afterVSync' = PulseAfterVSync
    /\ UNCHANGED <<x, y, samplesPerLine, hSyncErrorAccumulator, vSyncState,
                   frameBuffer, displayBuffer>>

\* VSyncEnd that leaves the row counter where it is on a confirmation
VSyncEndKeepsRow ==
    /\ vSyncState = StateInVSync
    /\ ~SequenceContinues
    /\ IF VSyncConfirmed
       THEN /\ y' = y
            /\ x' = 0
            /\ samplesPerLine' = initialSamplesPerLine
            /\ hSyncErrorAccumulator' = 0
            /\ event' = "vconfirm"
            /\ afterVSync' = "fresh"
       ELSE /\ UNCHANGED <<x, y, samplesPerLine, hSyncErrorAccumulator>>
            /\ event' = "vfalse"
            /\ afterVSync' = PulseAfterVSync
    /\ vSyncState' = StateSearchVSync
    /\ vSyncSerrationCounter' = 0
    /\ pixelCounter' = 0
    /\ UNCHANGED <<frameBuffer, displayBuffer>>

\* decoder.go:154-167
VSyncEnd ==
    /\ vSyncState = StateInVSync
    /\ ~SequenceContinues
    /\ IF VSyncConfirmed
       THEN /\ y' = 0
            /\ x' = 0
            /\ samplesPerLine' = initialSamplesPerLine
            /\ hSyncErrorAccumulator' = 0
            /\ event' = "vconfirm"
            /\ afterVSync' = "fresh"
       ELSE /\ UNCHANGED <<x, y, samplesPerLine, hSyncErrorAccumulator>>
            /\ event' = "vfalse"
            /\ afterVSync' = PulseAfterVSync
    /\ vSyncState' = StateSearchVSync
    /\ vSyncSerrationCounter' = 0
    /\ pixelCounter' = 0
    /\ UNCHANGED <<frameBuffer, displayBuffer>>

\* decoder.go:111-172: the sample that ends a pulse; it is not drawn and
\* does not advance x ("continue")
CommitPulse ==
    /\ longRun' = IF RunExtends THEN longRun + 1 ELSE 0
    /\ closedRun' = IF RunExtends THEN 0 ELSE longRun
    /\ wrote' = <<>>
    /\ \/ VSyncStart
       \/ HSyncPLL
       \/ VSyncCount
       \/ VSyncEnd

(***************************************************************************)
(* ProcessIQ: video drawing, flywheel, frame completion                    *)
(***************************************************************************)
\* decoder.go:178
InActiveVideo(xx, yy) ==
    /\ yy >= 0 /\ yy < FrameHeight
    /\ xx >= lineStartActiveVideo /\ xx < lineEndActiveVideo
\* decoder.go:179-181
PixelX(xx) ==
    ((xx - lineStartActiveVideo) * FrameWidth) \div (lineEndActiveVideo - lineStartActiveVideo)
\* decoder.go:183
Draws(xx, yy) == InActiveVideo(xx, yy) /\ PixelX(xx) >= 0 /\ PixelX(xx) < FrameWidth
\* PixelIndex counting rows from 1
PixelIndexFromOne(xx, yy) == ((yy + 1) * FrameWidth + PixelX(xx)) * 3
\* decoder.go:193
PixelIndex(xx, yy) == (yy * FrameWidth + PixelX(xx)) * 3
\* the tracked pixel a raster index belongs to
Pixel(idx) == idx \div 3

\* CountedPulse that counts outside the search window as well
CountedPulseEverywhere(hi) == IF hi THEN pixelCounter + 1 ELSE 0
\* decoder.go:107-110, 173
CountedPulse(hi) ==
    IF InSearchWindow THEN (IF hi THEN pixelCounter + 1 ELSE 0) ELSE pixelCounter

\* NextX that forgets the increment
NextXStuck(xx) == xx
\* decoder.go:200
NextX(xx) == xx + 1
\* decoder.go:203
FlywheelFires(xx, spl) == xx >= spl \div Scale
\* decoder.go:206
FrameComplete(yy) == yy >= FrameHeight

\* decoder.go:177-211: a sample that does not commit a pulse
DrawAndAdvance(hi, b) ==
    LET fb1 == IF Draws(x, y) /\ Pixel(PixelIndex(x, y)) \in Tracked
               THEN [frameBuffer EXCEPT ![Pixel(PixelIndex(x, y))] = b]
               ELSE frameBuffer
        x1 == NextX(x)
        fly == FlywheelFires(x1, samplesPerLine)
        y1 == IF fly THEN y + 1 ELSE y
    IN  /\ pixelCounter' = CountedPulse(hi)
        /\ mode \in {"any", "runs"} => pixelCounter' <= MaxPixelCounter
        /\ frameBuffer' = fb1
        /\ wrote' = IF Draws(x, y) THEN <<y, PixelX(x), PixelIndex(x, y)>> ELSE <<>>
        /\ closedRun' = 0
        /\ x' = IF fly THEN 0 ELSE x1
        /\ IF FrameComplete(y1)
           THEN /\ y' = 0
                /\ displayBuffer' = fb1
                /\ event' = "frame"
           ELSE /\ y' = y1
                /\ displayBuffer' = displayBuffer
                /\ event' = IF fly THEN "flywheel" ELSE "sample"
        /\ afterVSync' = DrawAfterVSync(Draws(x, y))
        /\ UNCHANGED <<samplesPerLine, hSyncErrorAccumulator, vSyncState,
                       vSyncSerrationCounter, longRun>>

\* decoder.go:184-191: a sample at or above syncThreshold is above
\* blackLevel, so its brightness clamps to 0
Brightness(hi) == IF hi THEN {0} ELSE {0, 255}

\* decoder.go:105-212: one iteration of the sample loop
ProcessSample(hi, b) ==
    /\ IF Commits(hi) THEN CommitPulse ELSE DrawAndAdvance(hi, b)
    /\ UNCHANGED sampleRate

(***************************************************************************)
(* The input streams                                                       *)
(***************************************************************************)
\* any magnitude trace
AnySample ==
    /\ mode = "any"
    /\ \E hi \in BOOLEAN : \E b \in Brightness(hi) : ProcessSample(hi, b)
    /\ UNCHANGED <<envVars, dispVars, txVars, synVars, agcVars, stVars, rxVars>>

\* H-sync pulses of hSyncPulseWidth samples, initialSamplesPerLine + delta apart
Period == initialSamplesPerLine + delta * Scale
PeriodicSample ==
    /\ mode = "periodic"
    /\ lines <= LockLines
    /\ ProcessSample(tphase < hSyncPulseWidth * Scale, 0)
    /\ IF tphase + Scale >= Period
       THEN tphase' = tphase + Scale - Period /\ lines' = lines + 1
       ELSE tphase' = tphase + Scale /\ lines' = lines
    /\ UNCHANGED <<mode, delta, hiRun, dispVars, txVars, synVars, agcVars, stVars, rxVars>>

\* any magnitude trace, with the length of the run of samples at or above
\* syncThreshold that ends it
RunSample ==
    /\ mode = "runs"
    /\ \E hi \in BOOLEAN : \E b \in Brightness(hi) :
          /\ ProcessSample(hi, b)
          /\ hiRun' = IF ~hi THEN 0 ELSE IF hiRun < MaxRun THEN hiRun + 1 ELSE MaxRun
    /\ UNCHANGED <<mode, delta, tphase, lines, dispVars, txVars, synVars, agcVars, stVars,
                   rxVars>>

\* no display loop yet: frameMutex is free, nothing has been returned
InitDisplayVars ==
    /\ frameMutex = "free"
    /\ dpc = "scan"
    /\ dcopied = {}
    /\ tpc = "idle"
    /\ tcopied = {}
    /\ frameCopy = <<>>
    /\ lastFrame = <<>>
    /\ swaps = {displayBuffer}

\* a sync.RWMutex nobody holds or waits for
Unlocked == [writer |-> "none", readers |-> {}, waiting |-> {}]
\* a task that is not inside GenerateFullFrame
NotGenerating == [phase |-> "off", line |-> 0, px |-> 0, held |-> FALSE]
\* the tasks that call GenerateFullFrame
Generators == {"main", "worker"}

\* hacktvlive before main has run: the standard's buffers as NewNTSC /
\* NewPAL made them (all zero: captured frame 0)
InitTxVars(std, test) ==
    /\ standard = std
    /\ testMode = test
    /\ mpc = "start"
    /\ wpc = "off"
    /\ cpc = "off"
    /\ frameLock = Unlocked
    /\ rawLock = Unlocked
    /\ gen = [t \in Generators |-> NotGenerating]
    /\ seen = [t \in Generators |-> {}]
    /\ rawFrameBuffer = [l \in 1..GenLines |-> 0]
    /\ compositeFrame = [l \in 1..GenLines |-> "none"]
    /\ captured = 0
    /\ rawRow = 0
    /\ sampleCounter = 0
    /\ samplesLeft = 0
    /\ cursorAtEntry = 0
    /\ samplesAsked = 0

\* NewNTSC: the frame buffer as make left it, GenerateFullFrame not yet called
InitSynVars(sr, colour) ==
    /\ synRate = sr
    /\ rawColour = colour
    /\ synLine = 0
    /\ synStage = "new"
    /\ lineBuffer = <<>>
    /\ subcarrierPhase = 0
    /\ ntscFrameBuffer = <<>>
    /\ ire = 0
    /\ iSample = 0

\* rtl_tv's main at its loop (part_002:386-424): the device is open, ffplay
\* runs, the read goroutine and the ticker have been started
InitRxVars ==
    /\ rxMain = "select"
    /\ rxReader = "read"
    /\ rxCause = "none"
    /\ shutdown = FALSE
    /\ frameTicker = TRUE
    /\ pipeOpen = TRUE
    /\ playerAlive = TRUE
    /\ dongleOpen = TRUE
    /\ framesWritten = 0
    /\ rxLog = <<>>

\* NewNTSC / NewPAL: nothing has been copied into the frame buffer
InitStVars(std, sr) ==
    /\ stStandard = std
    /\ stRate = sr
    /\ stLine = 1
    /\ stStage = "generate"
    /\ stLineLen = 0
    /\ stWrites = <<>>
    /\ vToggle = 1
    /\ stLineLog = <<>>

\* decoder.go:64-65
InitAgcVars ==
    /\ iq = <<>>
    /\ smoothedMax = 128 * AgcScale
    /\ smoothedMin = 0
    /\ localMax = 0
    /\ localMin = 255 * AgcScale
    /\ prevSmoothedMax = 128 * AgcScale
    /\ prevSmoothedMin = 0
    /\ agcCalls = 0

InitAny ==
    /\ New(LowSampleRate, Tracked)
    /\ InitObs
    /\ InitDisplayVars
    /\ InitTxVars("NTSC", TRUE)
    /\ InitSynVars(8000000, <<0, 0, 0>>)
    /\ InitAgcVars
    /\ InitStVars("NTSC", 8000000)
    /\ InitRxVars
    /\ mode = "any" /\ delta = 0 /\ tphase = 0 /\ lines = 0 /\ hiRun = 0

InitPeriodic ==
    /\ New(DefaultSampleRate, Tracked)
    /\ InitObs
    /\ InitDisplayVars
    /\ InitTxVars("NTSC", TRUE)
    /\ InitSynVars(8000000, <<0, 0, 0>>)
    /\ InitAgcVars
    /\ InitStVars("NTSC", 8000000)
    /\ InitRxVars
    /\ mode = "periodic" /\ delta \in {-3, 3} /\ tphase = 0 /\ lines = 1 /\ hiRun = 0

Init == InitAny \/ InitPeriodic

Next == AnySample \/ PeriodicSample

Spec == Init /\ [][Next]_vars

\* the input stream does not end: the SDR read loop keeps calling ProcessIQ
SpecLive == Spec /\ WF_vars(Next)

InitRuns ==
    /\ New(LowSampleRate, Tracked)
    /\ InitObs
    /\ InitDisplayVars
    /\ InitTxVars("NTSC", TRUE)
    /\ InitSynVars(8000000, <<0, 0, 0>>)
    /\ InitAgcVars
    /\ InitStVars("NTSC", 8000000)
    /\ InitRxVars
    /\ mode = "runs" /\ delta = 0 /\ tphase = 0 /\ lines = 0 /\ hiRun = 0

NextRuns == RunSample

SpecRuns == InitRuns /\ [][NextRuns]_vars
SpecRunsLive == SpecRuns /\ WF_vars(NextRuns)

(***************************************************************************)
(* Claims about the decoder                                                *)
(***************************************************************************)
LowerClamp == Round(initialSamplesPerLine * 95, 100)
UpperClamp == Round(initialSamplesPerLine * 105, 100)
TraceDone == mode = "periodic" /\ lines > LockLines

\* C1: fed H-sync pulses spaced initialSamplesPerLine + delta apart, delta in
\* {-3, +3}, the estimate is within 0.5 sample of that spacing once 200
\* lines have gone by.
C1_PLLConverges ==
    TraceDone => 2 * Abs(samplesPerLine - Period) < Scale

\* C2: the first pixel written after a V-sync confirmation lies in row 0,
\* whatever samples follow the confirmation.
C2_NextRowIsZero ==
    afterVSync \in {"drawnFresh", "drawnPulsed"} => wrote[1] = 0

\* C2, amended: the first pixel written after a V-sync confirmation lies in
\* row 0 when no sync pulse was committed between the confirmation and the
\* write.
C2_NextRowIsZeroUnlessPulse ==
    afterVSync = "drawnFresh" => wrote[1] = 0

C2_Witness ==
    afterVSync = "drawnFresh" /\ wrote # <<>> /\ wrote[1] = 0

\* C3: a sequence of 3 to 6 committed long pulses that began in SearchVSync
\* with y > H-20, and then the next committed pulse, leave the decoder at
\* the top of a new frame with the PLL reset and the FSM back in
\* SearchVSync.
C3_VSyncDetection ==
    closedRun \in MinSerrations..MaxSerrations =>
        /\ y = 0 /\ x = 0
        /\ samplesPerLine = initialSamplesPerLine
        /\ hSyncErrorAccumulator = 0
        /\ vSyncState = StateSearchVSync
        /\ vSyncSerrationCounter = 0

C3_Witness ==
    closedRun = MaxSerrations /\ event = "vconfirm" /\ y = 0 /\ x = 0

\* C4: whenever the row counter is returned to 0 at the end of a scan (y
\* reached H, or a V-sync sequence was confirmed), displayBuffer holds the
\* frame just scanned.
C4_FreshFrameAtFrameEnd ==
    event \in {"frame", "vconfirm"} => displayBuffer = frameBuffer

\* C5: samplesPerLine is always within [0.95, 1.05] * initialSamplesPerLine.
C5_SamplesPerLineInRange ==
    /\ samplesPerLine >= LowerClamp
    /\ samplesPerLine <= UpperClamp

C5_Witness ==
    event = "hsync" /\ samplesPerLine = LowerClamp

\* C6: every pixel write has 0 <= y < H and 0 <= pixelX < W, and its three
\* bytes lie inside frameBuffer.
C6_WriteInBounds ==
    wrote # <<>> =>
        /\ wrote[1] >= 0 /\ wrote[1] < FrameHeight
        /\ wrote[2] >= 0 /\ wrote[2] < FrameWidth
        /\ wrote[3] >= 0 /\ wrote[3] + 2 < FrameBufferLen

C6_Witness ==
    /\ wrote # <<>>
    /\ wrote[1] = FrameHeight - 1
    /\ wrote[2] = PixelX(lineEndActiveVideo - 1)

\* the bounded input has nothing more to offer
InputOver == ~ENABLED Next

\* C7: a sample that commits no pulse increments x, x never reaches
\* floor(samplesPerLine) without the flywheel moving to the next row, and
\* while samples keep coming the row counter advances again and again and
\* keeps returning to row 0, within [0, H].
C7_FlywheelProgress ==
    /\ [][event' = "sample" => x' = x + 1 /\ y' = y]_vars
    /\ [][event' = "flywheel" => x' = 0 /\ y' = y + 1]_vars
    /\ [](x < samplesPerLine \div Scale /\ y >= 0 /\ y <= FrameHeight)
    /\ \/ []<>(event \in {"hsync", "flywheel", "frame"}) /\ []<>(y = 0)
       \/ <>[]InputOver

C7_Witness ==
    event = "flywheel" /\ vSyncState = StateInVSync /\ y = FrameHeight - 1

PulseEvents == {"hsync", "vstart", "vcount", "vconfirm", "vfalse"}
\* the step is the commit of a sync pulse
PulseCommitted == event' \in PulseEvents /\ pixelCounter' = 0 /\ wrote' = <<>>
SyncState == <<vSyncState, vSyncSerrationCounter, pixelCounter, samplesPerLine,
               hSyncErrorAccumulator>>

\* C23: a sync pulse is committed only by a sample processed with
\* x < syncSearchWindow; a sample processed with x >= syncSearchWindow
\* leaves vSyncState, vSyncSerrationCounter, pixelCounter, samplesPerLine
\* and hSyncErrorAccumulator alone and changes y only by the flywheel or
\* the frame completion.
C23_SearchWindow ==
    /\ [][PulseCommitted => x < syncSearchWindow]_vars
    /\ [][x >= syncSearchWindow =>
             /\ SyncState' = SyncState
             /\ event' \notin PulseEvents
             /\ y' # y => event' \in {"flywheel", "frame"}]_vars

\* a pulse that began inside the search window and runs on beyond it: the
\* counter stands still
C23_Witness ==
    /\ mode = "any"
    /\ x > syncSearchWindow
    /\ pixelCounter = 2
    /\ event = "sample"

\* C24: when a sync pulse is committed, pixelCounter is the number of
\* consecutive samples at or above syncThreshold that come immediately
\* before the committing sample in the input.
C24_PulseWidthIsRunLength ==
    [][mode = "runs" /\ PulseCommitted => pixelCounter = hiRun]_vars

\* C25: at every update of the H-sync PLL the error x - samplesPerLine is
\* below zero; hSyncErrorAccumulator never increases and is never above
\* zero; samplesPerLine is never above initialSamplesPerLine and rises only
\* by the V-sync reset to that value.
C25_PLLErrorSign ==
    /\ [](samplesPerLine >= LowerClamp /\ syncSearchWindow * Scale < LowerClamp)
    /\ [][event' = "hsync" /\ PulseCommitted => PLLError(x, samplesPerLine) < 0]_vars
    /\ [][hSyncErrorAccumulator' <= hSyncErrorAccumulator]_vars
    /\ [](hSyncErrorAccumulator <= 0)
    /\ [](samplesPerLine <= initialSamplesPerLine)
    /\ [][samplesPerLine' > samplesPerLine =>
             event' = "vconfirm" /\ samplesPerLine' = initialSamplesPerLine]_vars

\* C25 with the V-sync reset as the one step that raises the accumulator
C25_PLLErrorSignButReset ==
    /\ [](samplesPerLine >= LowerClamp /\ syncSearchWindow * Scale < LowerClamp)
    /\ [][event' = "hsync" /\ PulseCommitted => PLLError(x, samplesPerLine) < 0]_vars
    /\ [][hSyncErrorAccumulator' > hSyncErrorAccumulator =>
             event' = "vconfirm" /\ hSyncErrorAccumulator' = 0]_vars
    /\ [](hSyncErrorAccumulator <= 0)
    /\ [](samplesPerLine <= initialSamplesPerLine)
    /\ [][samplesPerLine' > samplesPerLine =>
             event' = "vconfirm" /\ samplesPerLine' = initialSamplesPerLine]_vars

\* a PLL update has lowered both
C25_Witness ==
    /\ event = "hsync"
    /\ hSyncErrorAccumulator < 0
    /\ samplesPerLine < initialSamplesPerLine

\* C26: in SearchVSync the serration counter is 0, in InVSync it is 1..6;
\* InVSync is entered only from SearchVSync by a committed long pulse with
\* y > FrameHeight - 20; and a step of the state machine changes x, y or
\* the PLL only when it ends a sequence whose counter is at least 3.
C26_VSyncFsmInvariant ==
    /\ [](vSyncState = StateSearchVSync => vSyncSerrationCounter = 0)
    /\ [](vSyncState = StateInVSync =>
             vSyncSerrationCounter >= 1 /\ vSyncSerrationCounter <= MaxSerrations)
    /\ [][vSyncState' = StateInVSync /\ vSyncState # StateInVSync =>
             /\ vSyncState = StateSearchVSync
             /\ PulseCommitted /\ x < syncSearchWindow
             /\ pixelCounter > hSyncPulseWidth * 2
             /\ y > FrameHeight - VSyncSearchRows]_vars
    /\ [][/\ PulseCommitted
          /\ vSyncState = StateInVSync \/ vSyncState' = StateInVSync
          /\ <<x, y, samplesPerLine, hSyncErrorAccumulator>>'
                # <<x, y, samplesPerLine, hSyncErrorAccumulator>>
          => /\ vSyncState = StateInVSync /\ vSyncState' = StateSearchVSync
             /\ vSyncSerrationCounter >= MinSerrations
             /\ x' = 0 /\ y' = 0
             /\ samplesPerLine' = initialSamplesPerLine
             /\ hSyncErrorAccumulator' = 0]_vars

\* the counter at its maximum
C26_Witness ==
    /\ vSyncState = StateInVSync
    /\ vSyncSerrationCounter = MaxSerrations
    /\ event = "vcount"

\* C27: the decoder is in InVSync for at most five committed pulses after
\* the one that took it there, and the sixth ends the sequence whatever its
\* width; a sample that commits no pulse leaves it in InVSync with the
\* counter as it was, wherever y is, and moves the raster only by the
\* sample count, the flywheel and the frame completion.
C27_BoundedStayInVSync ==
    /\ [](vSyncState = StateInVSync => longRun >= 1 /\ longRun <= MaxSerrations)
    /\ [][vSyncState = StateInVSync /\ longRun = MaxSerrations /\ PulseCommitted =>
             vSyncState' = StateSearchVSync]_vars
    /\ [][vSyncState = StateInVSync /\ PulseCommitted /\ ~isLongPulse =>
             vSyncState' = StateSearchVSync]_vars
    /\ [][vSyncState = StateInVSync /\ ~PulseCommitted =>
             /\ vSyncState' = StateInVSync
             /\ vSyncSerrationCounter' = vSyncSerrationCounter
             /\ event' \in {"sample", "flywheel", "frame"}
             /\ y' # y => event' \in {"flywheel", "frame"}]_vars

\* a frame completes by the flywheel while the decoder is in InVSync
C27_Witness ==
    /\ vSyncState = StateInVSync
    /\ event = "frame"
    /\ y = 0
    /\ longRun >= 1

\* C28: the pulse that takes the decoder into InVSync, a pulse counted in
\* InVSync, and the pulse that ends a sequence of fewer than 3 change
\* vSyncState, vSyncSerrationCounter and pixelCounter (to 0) and nothing
\* else of the decoder: x, y, the PLL and both buffers stay, the sample is
\* not drawn and not counted in x.
C28_VSyncTransitionFrame ==
    [][/\ PulseCommitted
       /\ \/ vSyncState = StateSearchVSync /\ vSyncState' = StateInVSync
          \/ vSyncState = StateInVSync /\ vSyncState' = StateInVSync
          \/ /\ vSyncState = StateInVSync /\ vSyncState' = StateSearchVSync
             /\ vSyncSerrationCounter < MinSerrations
       => /\ UNCHANGED <<x, y, samplesPerLine, hSyncErrorAccumulator, frameBuffer,
                         displayBuffer, sampleRate>>
          /\ pixelCounter' = 0
          /\ wrote' = <<>>
          /\ event' \in {"vstart", "vcount", "vfalse"}]_vars

\* a false alarm away from the start of the line, with the PLL off its
\* initial state
C28_Witness ==
    /\ event = "vfalse"
    /\ x > 0 /\ y > 0
    /\ samplesPerLine < initialSamplesPerLine
    /\ closedRun \in 1..(MinSerrations - 1)

(***************************************************************************)
(* The display buffer: the SDR read loop (ProcessIQ) and the display loop  *)
(* (GetDisplayFrame) as two goroutines sharing Decoder.frameMutex.  Each   *)
(* copy() is a run of single-byte steps so that the other goroutine may    *)
(* run between any two of them; only the mutex keeps it from doing so.     *)
(* The sample loop is reduced to what it does to the buffers: it writes    *)
(* bytes of frameBuffer and, at the end of a frame, copies.                *)
(***************************************************************************)
\* the first and the last byte of the raster
DisplayTracked == {0, FrameBufferLen - 1}

Min(S) == CHOOSE m \in S : \A n \in S : m <= n

\* sync.Mutex.Lock returns only when nobody holds the mutex
CanLockAlways(m) == TRUE
CanLock(m) == m = "free"

\* what the display-buffer steps leave alone
restOfDecoder == <<sampleRate, x, y, pixelCounter, samplesPerLine,
                   hSyncErrorAccumulator, vSyncState, vSyncSerrationCounter>>
notDisplay == <<restOfDecoder, envVars, obsVars, txVars, synVars, agcVars, stVars, rxVars>>

\* decoder.go:193-197: a pixel is drawn into frameBuffer
DecoderDraw ==
    /\ dpc = "scan"
    /\ \E p \in DOMAIN frameBuffer : \E b \in {0, 255} :
          frameBuffer' = [frameBuffer EXCEPT ![p] = b]
    /\ UNCHANGED <<notDisplay, displayBuffer, frameMutex, dpc, dcopied, tpc, tcopied,
                   frameCopy, lastFrame, swaps>>

\* decoder.go:206-207: y has reached FrameHeight
DecoderFrameEnd ==
    /\ dpc = "scan"
    /\ dpc' = "lock"
    /\ UNCHANGED <<notDisplay, frameBuffer, displayBuffer, frameMutex, dcopied, tpc, tcopied,
                   frameCopy, lastFrame, swaps>>

\* decoder.go:208
DecoderLock ==
    /\ dpc = "lock"
    /\ CanLock(frameMutex)
    /\ frameMutex' = "decoder"
    /\ dpc' = "copy"
    /\ dcopied' = {}
    /\ UNCHANGED <<notDisplay, frameBuffer, displayBuffer, tpc, tcopied, frameCopy, lastFrame, swaps>>

\* decoder.go:209: copy(d.displayBuffer, d.frameBuffer), one byte
DecoderCopy ==
    /\ dpc = "copy"
    /\ dcopied # DOMAIN frameBuffer
    /\ LET p == Min(DOMAIN frameBuffer \ dcopied) IN
          /\ displayBuffer' = [displayBuffer EXCEPT ![p] = frameBuffer[p]]
          /\ dcopied' = dcopied \cup {p}
    /\ UNCHANGED <<notDisplay, frameBuffer, frameMutex, dpc, tpc, tcopied, frameCopy, lastFrame, swaps>>

\* decoder.go:210
DecoderUnlock ==
    /\ dpc = "copy"
    /\ dcopied = DOMAIN frameBuffer
    /\ frameMutex' = "free"
    /\ dpc' = "scan"
    /\ swaps' = swaps \cup {displayBuffer}
    /\ UNCHANGED <<notDisplay, frameBuffer, displayBuffer, dcopied, tpc, tcopied, frameCopy, lastFrame>>

\* part_002:427-430 (rtl_tv main): a display tick calls GetDisplayFrame
DisplayTick ==
    /\ tpc = "idle"
    /\ tpc' = "lock"
    /\ UNCHANGED <<notDisplay, frameBuffer, displayBuffer, frameMutex, dpc, dcopied, tcopied,
                   frameCopy, lastFrame, swaps>>

\* decoder.go:217-219: Lock, make
DisplayLock ==
    /\ tpc = "lock"
    /\ CanLock(frameMutex)
    /\ frameMutex' = "display"
    /\ tpc' = "copy"
    /\ tcopied' = {}
    /\ frameCopy' = ZeroFrame(DOMAIN displayBuffer)
    /\ UNCHANGED <<notDisplay, frameBuffer, displayBuffer, dpc, dcopied, lastFrame, swaps>>

\* decoder.go:220: copy(frameCopy, d.displayBuffer), one byte
DisplayCopy ==
    /\ tpc = "copy"
    /\ tcopied # DOMAIN displayBuffer
    /\ LET p == Min(DOMAIN displayBuffer \ tcopied) IN
          /\ frameCopy' = [frameCopy EXCEPT ![p] = displayBuffer[p]]
          /\ tcopied' = tcopied \cup {p}
    /\ UNCHANGED <<notDisplay, frameBuffer, displayBuffer, frameMutex, dpc, dcopied, tpc,
                   lastFrame, swaps>>

\* decoder.go:218,221: return frameCopy, the deferred Unlock runs
DisplayReturn ==
    /\ tpc = "copy"
    /\ tcopied = DOMAIN displayBuffer
    /\ frameMutex' = "free"
    /\ lastFrame' = frameCopy
    /\ tpc' = "idle"
    /\ UNCHANGED <<notDisplay, frameBuffer, displayBuffer, dpc, dcopied, tcopied, frameCopy, swaps>>

DecoderStep == DecoderDraw \/ DecoderFrameEnd \/ DecoderLock \/ DecoderCopy \/ DecoderUnlock
DisplayStep == DisplayTick \/ DisplayLock \/ DisplayCopy \/ DisplayReturn

InitDisplay ==
    /\ New(LowSampleRate, DisplayTracked)
    /\ InitObs
    /\ InitDisplayVars
    /\ InitTxVars("NTSC", TRUE)
    /\ InitSynVars(8000000, <<0, 0, 0>>)
    /\ InitAgcVars
    /\ InitStVars("NTSC", 8000000)
    /\ InitRxVars
    /\ mode = "display" /\ delta = 0 /\ tphase = 0 /\ lines = 0 /\ hiRun = 0

NextDisplay ==
    \/ DecoderDraw \/ DecoderFrameEnd \/ DecoderLock \/ DecoderCopy \/ DecoderUnlock
    \/ DisplayTick \/ DisplayLock \/ DisplayCopy \/ DisplayReturn

SpecDisplay == InitDisplay /\ [][NextDisplay]_vars

\* C10: the decoder's copy and GetDisplayFrame's copy-out never run at the
\* same time, every frame GetDisplayFrame has returned is the displayBuffer
\* of one completed swap (or the all-zero buffer New made), and no step of
\* the decoder changes a frame that was returned.
C10_DisplayBufferConsistency ==
    /\ [](~(dpc = "copy" /\ tpc = "copy"))
    /\ [](lastFrame # <<>> => lastFrame \in swaps)
    /\ [][DecoderStep => lastFrame' = lastFrame]_vars

\* a returned frame that is the result of a swap, not the initial buffer,
\* while the decoder is already waiting to copy the next frame
C10_Witness ==
    /\ lastFrame # <<>>
    /\ lastFrame # ZeroFrame(DisplayTracked)
    /\ lastFrame \in swaps
    /\ dpc = "lock"
    /\ frameBuffer # lastFrame

(***************************************************************************)
(* The transmit pipeline of hacktvlive: main, the worker goroutine (the    *)
(* test-pattern ticker or the ffmpeg capture reader) and the SDR callback, *)
(* sharing the standard's frame mutex and raw-frame mutex.                 *)
(* GenerateFullFrame is followed over GenLines active lines of GenPixels   *)
(* pixels: per line the luma pass, the chroma pass, then the copy into the *)
(* frame buffer.  The frame buffer holds one sample per line.              *)
(***************************************************************************)
notTx == <<decVars, envVars, obsVars, dispVars, synVars, agcVars, stVars, rxVars>>
cfgVars == <<standard, testMode>>
cbVars == <<cpc, sampleCounter, samplesLeft, cursorAtEntry, samplesAsked>>
capVars == <<rawFrameBuffer, captured, rawRow>>

FrameLen == GenLines

\* sync.RWMutex: Lock waits for the writer and all readers to leave, and
\* a waiting writer keeps new readers out
IsFree(l) == l.writer = "none" /\ l.readers = {}
CanRLock(l) == l.writer = "none" /\ l.waiting = {}
Acquired(l, t) == [l EXCEPT !.writer = t, !.waiting = @ \ {t}]
Announced(l, t) == [l EXCEPT !.waiting = @ \cup {t}]
Released(l) == [l EXCEPT !.writer = "none"]
RAcquired(l, t) == [l EXCEPT !.readers = @ \cup {t}]
RReleased(l, t) == [l EXCEPT !.readers = @ \ {t}]

GenStart == [phase |-> "luma", line |-> 1, px |-> 0, held |-> FALSE]
Generating(t) == gen[t].phase # "off"

\* ntsc.go:100 (per pixel), pal.go:73 and 147 (per pass of a line)
GenRLock(t) ==
    /\ gen[t].phase \in {"luma", "chroma"}
    /\ ~gen[t].held
    /\ CanRLock(rawLock)
    /\ rawLock' = RAcquired(rawLock, t)
    /\ gen' = [gen EXCEPT ![t].held = TRUE]
    /\ UNCHANGED <<notTx, cfgVars, cbVars, capVars, mpc, wpc, frameLock, seen, compositeFrame>>

\* ntsc.go:101-105, pal.go:121-124: a pixel of the raw frame is read; NTSC
\* unlocks after the pixel, PAL after the last pixel of the pass
GenReadPixel(t) ==
    /\ gen[t].phase \in {"luma", "chroma"}
    /\ gen[t].held
    /\ LET g == gen[t]
           last == g.px + 1 = GenPixels
           release == standard = "NTSC" \/ last
       IN  /\ seen' = [seen EXCEPT ![t] = @ \cup {rawFrameBuffer[g.line]}]
           /\ gen' = [gen EXCEPT ![t] =
                        [phase |-> IF ~last THEN g.phase
                                   ELSE IF g.phase = "luma" THEN "chroma" ELSE "store",
                         line |-> g.line,
                         px |-> IF last THEN 0 ELSE g.px + 1,
                         held |-> ~release]]
           /\ rawLock' = IF release THEN RReleased(rawLock, t) ELSE rawLock
    /\ UNCHANGED <<notTx, cfgVars, cbVars, capVars, mpc, wpc, frameLock, compositeFrame>>

\* a GenerateFullFrame that rewinds the callback's cursor with its last line
GenStoreLineRewinds(t) ==
    /\ gen[t].phase = "store"
    /\ compositeFrame' = [compositeFrame EXCEPT ![gen[t].line] = t]
    /\ gen' = [gen EXCEPT ![t] = IF gen[t].line = GenLines THEN NotGenerating
                                 ELSE [GenStart EXCEPT !.line = gen[t].line + 1]]
    /\ sampleCounter' = IF gen[t].line = GenLines THEN 0 ELSE sampleCounter
    /\ UNCHANGED <<notTx, cfgVars, cpc, samplesLeft, cursorAtEntry, samplesAsked, capVars,
                   mpc, wpc, frameLock, rawLock, seen>>

\* ntsc.go:82-83, pal.go:93-94: the line is copied into the frame buffer
GenStoreLine(t) ==
    /\ gen[t].phase = "store"
    /\ compositeFrame' = [compositeFrame EXCEPT ![gen[t].line] = t]
    /\ gen' = [gen EXCEPT ![t] = IF gen[t].line = GenLines THEN NotGenerating
                                 ELSE [GenStart EXCEPT !.line = gen[t].line + 1]]
    /\ UNCHANGED <<notTx, cfgVars, cbVars, capVars, mpc, wpc, frameLock, rawLock, seen>>

\* part_000:45-59: main sets up the source and starts the worker goroutine.
\* In test mode FillTestPattern writes the colour bars (frame 1) first.
MainStartSource ==
    /\ mpc = "start"
    /\ mpc' = "generate"
    /\ IF testMode
       THEN /\ rawFrameBuffer' = [l \in 1..GenLines |-> 1]
            /\ captured' = 1
            /\ wpc' = "tick"
       ELSE /\ wpc' = "lockRaw"
            /\ UNCHANGED <<rawFrameBuffer, captured>>
    /\ UNCHANGED <<notTx, cfgVars, cbVars, rawRow, frameLock, rawLock, gen, seen,
                   compositeFrame>>

\* part_000:70-71: main calls GenerateFullFrame for the initial frame
MainGenerate ==
    /\ mpc = "generate"
    /\ mpc' = "generating"
    /\ gen' = [gen EXCEPT !["main"] = GenStart]
    /\ seen' = [seen EXCEPT !["main"] = {}]
    /\ UNCHANGED <<notTx, cfgVars, cbVars, capVars, wpc, frameLock, rawLock, compositeFrame>>

\* part_000:74, part_001:15-63: the initial frame is done, sdr.Transmit
\* installs the callback and starts the stream; main then waits for a signal
MainTransmit ==
    /\ mpc = "generating"
    /\ ~Generating("main")
    /\ mpc' = "wait"
    /\ cpc' = "idle"
    /\ UNCHANGED <<notTx, cfgVars, capVars, wpc, frameLock, rawLock, gen, seen,
                   compositeFrame, sampleCounter, samplesLeft, cursorAtEntry,
                   samplesAsked>>

\* part_000:52: the ticker fires
WorkerTick ==
    /\ wpc = "tick"
    /\ wpc' = "lockFrame"
    /\ UNCHANGED <<notTx, cfgVars, cbVars, capVars, mpc, frameLock, rawLock, gen, seen,
                   compositeFrame>>

\* part_000:53-54, capture.go:88-89: LockFrame, then GenerateFullFrame begins
WorkerLockFrame ==
    /\ wpc = "lockFrame"
    /\ IF IsFree(frameLock)
       THEN /\ frameLock' = Acquired(frameLock, "worker")
            /\ wpc' = "generating"
            /\ gen' = [gen EXCEPT !["worker"] = GenStart]
            /\ seen' = [seen EXCEPT !["worker"] = {}]
       ELSE /\ "worker" \notin frameLock.waiting
            /\ frameLock' = Announced(frameLock, "worker")
            /\ UNCHANGED <<wpc, gen, seen>>
    /\ UNCHANGED <<notTx, cfgVars, cbVars, capVars, mpc, rawLock, compositeFrame>>

\* part_000:55, capture.go:90: UnlockFrame, and around the loop
WorkerUnlockFrame ==
    /\ wpc = "generating"
    /\ ~Generating("worker")
    /\ frameLock' = Released(frameLock)
    /\ wpc' = IF testMode THEN "tick" ELSE "lockRaw"
    /\ UNCHANGED <<notTx, cfgVars, cbVars, capVars, mpc, rawLock, gen, seen, compositeFrame>>

\* capture.go:76
WorkerLockRaw ==
    /\ wpc = "lockRaw"
    /\ IF IsFree(rawLock)
       THEN /\ rawLock' = Acquired(rawLock, "worker")
            /\ wpc' = "read"
            /\ rawRow' = 0
       ELSE /\ "worker" \notin rawLock.waiting
            /\ rawLock' = Announced(rawLock, "worker")
            /\ UNCHANGED <<wpc, rawRow>>
    /\ UNCHANGED <<notTx, cfgVars, cbVars, rawFrameBuffer, captured, mpc, frameLock,
                   gen, seen, compositeFrame>>

\* capture.go:77: io.ReadFull fills the next line of the raw frame
WorkerReadRow ==
    /\ wpc = "read"
    /\ rawRow < GenLines
    /\ captured < MaxCaptures
    /\ rawFrameBuffer' = [rawFrameBuffer EXCEPT ![rawRow + 1] = captured + 1]
    /\ rawRow' = rawRow + 1
    /\ UNCHANGED <<notTx, cfgVars, cbVars, captured, mpc, wpc, frameLock, rawLock,
                   gen, seen, compositeFrame>>

\* capture.go:77-78, 80: io.ReadFull has filled the buffer; UnlockRaw
WorkerReadDone ==
    /\ wpc = "read"
    /\ rawRow = GenLines
    /\ captured' = captured + 1
    /\ rawLock' = Released(rawLock)
    /\ wpc' = "lockFrame"
    /\ UNCHANGED <<notTx, cfgVars, cbVars, rawFrameBuffer, rawRow, mpc, frameLock,
                   gen, seen, compositeFrame>>

\* a reader that breaks out of its loop with the raw frame still locked
WorkerReadFailKeepsRaw ==
    /\ wpc = "read"
    /\ rawRow < GenLines
    /\ wpc' = "exit"
    /\ UNCHANGED <<notTx, cfgVars, cbVars, capVars, mpc, frameLock, rawLock, gen, seen,
                   compositeFrame>>

\* capture.go:77-85: io.ReadFull returns an error (the pipe has closed);
\* UnlockRaw, break
WorkerReadFail ==
    /\ wpc = "read"
    /\ rawRow < GenLines
    /\ rawLock' = Released(rawLock)
    /\ wpc' = "exit"
    /\ UNCHANGED <<notTx, cfgVars, cbVars, capVars, mpc, frameLock, gen, seen,
                   compositeFrame>>

\* part_001:39-45: the SDR asks for n samples; RLockFrame
CallbackRLock ==
    /\ cpc = "idle"
    /\ CanRLock(frameLock)
    /\ frameLock' = RAcquired(frameLock, "callback")
    /\ cpc' = "read"
    /\ \E n \in 0..BufSamples : samplesLeft' = n /\ samplesAsked' = n
    /\ cursorAtEntry' = sampleCounter
    /\ UNCHANGED <<notTx, cfgVars, capVars, mpc, wpc, rawLock, gen, seen,
                   compositeFrame, sampleCounter>>

\* part_001:56-59: sampleCounter++, back to 0 at len(frameBuf)
NextCursorWrapsLate(c) == IF c + 1 > FrameLen THEN 0 ELSE c + 1
NextCursor(c) == IF c + 1 >= FrameLen THEN 0 ELSE c + 1

\* part_001:47-59: one sample is read at the cursor, the cursor advances
CallbackSample ==
    /\ cpc = "read"
    /\ samplesLeft > 0
    /\ sampleCounter' = NextCursor(sampleCounter)
    /\ samplesLeft' = samplesLeft - 1
    /\ UNCHANGED <<notTx, cfgVars, capVars, mpc, wpc, cpc, frameLock, rawLock, gen,
                   seen, compositeFrame, cursorAtEntry, samplesAsked>>

\* a callback that returns without the deferred RUnlockFrame
CallbackReturnKeepsLock ==
    /\ cpc = "read"
    /\ samplesLeft = 0
    /\ cpc' = "idle"
    /\ UNCHANGED <<notTx, cfgVars, capVars, mpc, wpc, rawLock, gen, seen, frameLock,
                   compositeFrame, sampleCounter, samplesLeft, cursorAtEntry,
                   samplesAsked>>

\* part_001:43, 61: the callback returns, the deferred RUnlockFrame runs
CallbackReturn ==
    /\ cpc = "read"
    /\ samplesLeft = 0
    /\ frameLock' = RReleased(frameLock, "callback")
    /\ cpc' = "idle"
    /\ UNCHANGED <<notTx, cfgVars, capVars, mpc, wpc, rawLock, gen, seen,
                   compositeFrame, sampleCounter, samplesLeft, cursorAtEntry,
                   samplesAsked>>

InitTx ==
    /\ New(LowSampleRate, Tracked)
    /\ InitObs
    /\ InitDisplayVars
    /\ \E std \in {"NTSC", "PAL"} : \E test \in BOOLEAN : InitTxVars(std, test)
    /\ InitSynVars(8000000, <<0, 0, 0>>)
    /\ InitAgcVars
    /\ InitStVars("NTSC", 8000000)
    /\ InitRxVars
    /\ mode = "transmit" /\ delta = 0 /\ tphase = 0 /\ lines = 0 /\ hiRun = 0

NextTx ==
    \/ MainStartSource \/ MainGenerate \/ MainTransmit
    \/ WorkerTick \/ WorkerLockFrame \/ WorkerUnlockFrame
    \/ WorkerLockRaw \/ WorkerReadRow \/ WorkerReadDone \/ WorkerReadFail
    \/ CallbackRLock \/ CallbackSample \/ CallbackReturn
    \/ \E t \in Generators : GenRLock(t)
    \/ \E t \in Generators : GenReadPixel(t)
    \/ \E t \in Generators : GenStoreLine(t)

SpecTx == InitTx /\ [][NextTx]_vars

\* C8: every GenerateFullFrame runs with the write guard of the composite
\* frame held, the callback reads under the shared-read guard, no two
\* frame generations overlap, and no generation runs while the callback
\* reads.
C8_CompositeFrameGuard ==
    /\ \A t \in Generators : Generating(t) => frameLock.writer = t
    /\ cpc = "read" => "callback" \in frameLock.readers
    /\ ~(Generating("main") /\ Generating("worker"))
    /\ cpc = "read" => \A t \in Generators : ~Generating(t)

\* C9: the capture reader writes the raw frame only with the write guard
\* held, a GenerateFullFrame holds the shared-read guard of the raw frame
\* from its first step to its last, no capture write falls between the
\* first and the last pixel read of one generation, and one generation
\* reads pixels of one captured frame only.
C9_RawFrameGuard ==
    /\ wpc = "read" => rawLock.writer = "worker"
    /\ \A t \in Generators : Generating(t) => t \in rawLock.readers
    /\ \A t \in Generators : Generating(t) /\ seen[t] # {} => wpc # "read"
    /\ \A t \in Generators : Cardinality(seen[t]) <= 1

(***************************************************************************)
(* A failed read of the capture pipe.  Go runs every runnable goroutine    *)
(* and the SDR library calls the callback for as long as the stream is on, *)
(* so main and the callback take their steps whenever they can; nothing    *)
(* makes ffmpeg deliver a frame, so the reader has no such guarantee.      *)
(***************************************************************************)
MainStep ==
    \/ MainStartSource \/ MainGenerate \/ MainTransmit
    \/ GenRLock("main") \/ GenReadPixel("main") \/ GenStoreLine("main")
CallbackStep == CallbackRLock \/ CallbackSample \/ CallbackReturn

SpecTxLive == SpecTx /\ WF_vars(MainStep) /\ WF_vars(CallbackStep)

CaptureFailed == wpc = "exit"

\* the reader's exit: the raw guard it held is free afterwards, main and
\* the callback are where they were
ReaderExitsCleanly ==
    [][wpc # "exit" /\ wpc' = "exit" =>
          /\ wpc = "read" /\ rawLock.writer = "worker"
          /\ rawLock'.writer = "none"
          /\ mpc' = mpc /\ cpc' = cpc /\ frameLock' = frameLock]_vars
\* after the failure the callback is called again and again and returns
CallbackKeepsServing ==
    /\ [](CaptureFailed => <>(cpc = "read"))
    /\ [](CaptureFailed /\ cpc = "read" => <>(cpc = "idle"))

Tasks == {"main", "worker", "callback"}
Holds(l, t) == l.writer = t \/ t \in l.readers
\* the task's next step is an acquisition of the guard
WantsFrame(t) ==
    \/ t = "worker" /\ wpc = "lockFrame"
    \/ t = "callback" /\ cpc = "idle"
WantsRaw(t) ==
    \/ t = "worker" /\ wpc = "lockRaw"
    \/ t \in Generators /\ gen[t].phase \in {"luma", "chroma"} /\ ~gen[t].held
\* the task cannot take the guard it wants
BlockedOnFrame(t) ==
    /\ WantsFrame(t)
    /\ IF t = "worker" THEN ~IsFree(frameLock) ELSE ~CanRLock(frameLock)
BlockedOnRaw(t) ==
    /\ WantsRaw(t)
    /\ IF t = "worker" THEN ~IsFree(rawLock) ELSE ~CanRLock(rawLock)
Blocked(t) == BlockedOnFrame(t) \/ BlockedOnRaw(t)
\* a step of the task
StepOf(t) ==
    CASE t = "main" -> MainStep
      [] t = "worker" ->
            \/ WorkerTick \/ WorkerLockFrame \/ WorkerUnlockFrame \/ WorkerLockRaw
            \/ WorkerReadRow \/ WorkerReadDone \/ WorkerReadFail
            \/ GenRLock("worker") \/ GenReadPixel("worker") \/ GenStoreLine("worker")
      [] OTHER -> CallbackStep

\* C29: no task waits for a guard while every task that stands in its way
\* waits too: whenever a task cannot take the guard it wants, a task that
\* holds that guard, or a writer waiting for it once it is free, can take a
\* step.  A task wants the composite-frame guard only while it holds no
\* guard, wants the raw-frame guard while it holds at most the
\* composite-frame guard, and never wants a guard it holds.
C29_NoGuardDeadlock ==
    /\ \A t \in Tasks :
          /\ WantsFrame(t) => ~Holds(frameLock, t) /\ ~Holds(rawLock, t)
          /\ WantsRaw(t) => ~Holds(rawLock, t)
          /\ Holds(rawLock, t) => ~WantsFrame(t)
    /\ \A t \in Tasks :
          BlockedOnFrame(t) =>
             \E u \in Tasks \ {t} :
                /\ Holds(frameLock, u) \/ (u \in frameLock.waiting /\ IsFree(frameLock))
                /\ ~Blocked(u)
                /\ ENABLED StepOf(u)
    /\ \A t \in Tasks :
          BlockedOnRaw(t) =>
             \E u \in Tasks \ {t} :
                /\ Holds(rawLock, u) \/ (u \in rawLock.waiting /\ IsFree(rawLock))
                /\ ~Blocked(u)
                /\ ENABLED StepOf(u)

\* the worker waits for the composite-frame guard the callback holds while
\* main's generation holds the raw-frame guard
C29_Witness ==
    /\ BlockedOnFrame("worker")
    /\ "worker" \in frameLock.waiting
    /\ Holds(frameLock, "callback")
    /\ wpc = "lockFrame"

\* the callback is kept out by the waiting worker, and a generation is kept
\* out of the raw frame by the reader
C29_WitnessRaw ==
    /\ BlockedOnRaw("main")
    /\ rawLock.writer = "worker"

\* C11: the cursor is always an index of the frame buffer, and a callback
\* asked for N samples leaves it at (cursor at entry + N) mod frameLen,
\* having advanced it by one (mod frameLen) per sample written.
C11_CursorAdvancesAndWraps ==
    /\ sampleCounter \in 0..(FrameLen - 1)
    /\ cpc \in {"idle", "read"} =>
          sampleCounter = (cursorAtEntry + samplesAsked - samplesLeft) % FrameLen

\* a callback that wrapped the cursor more than once has returned
C11_Witness ==
    /\ cpc = "idle"
    /\ samplesAsked = BufSamples
    /\ samplesAsked > FrameLen
    /\ cursorAtEntry = FrameLen - 1
    /\ sampleCounter = (cursorAtEntry + samplesAsked) % FrameLen

\* C12: only the callback's sample loop changes the cursor; no step of a
\* GenerateFullFrame, of main or of the worker does.
C12_CursorNotResetBetweenFrames ==
    [][sampleCounter' # sampleCounter =>
          cpc = "read" /\ cpc' = "read" /\ samplesLeft' = samplesLeft - 1]_vars

\* the worker has completed a frame while the cursor is inside the frame
C12_Witness ==
    /\ wpc = "generating"
    /\ ~Generating("worker")
    /\ compositeFrame = [l \in 1..GenLines |-> "worker"]
    /\ sampleCounter # 0

(***************************************************************************)
(* The NTSC synthesizer: one GenerateFullFrame followed line by line, with *)
(* the values of the samples.  Levels are fixed-point in 1/1000 IRE.  The  *)
(* subcarrier phase is kept in units of 1/704 cycle: fsc = 3579545.4545 Hz *)
(* is 315/88 MHz to within 1e-11, so at the sample rates followed here the *)
(* phase increment is a whole number of such units.  The timing constants  *)
(* are the truncations NewNTSC computes at these sample rates.  The raw    *)
(* raster holds one colour in every pixel.                                 *)
(***************************************************************************)
\* hacktvlive -bw 8 and the default -bw 1.5
SynRates == {8000000, 1500000}
\* the corners of the RGB cube
Colours == {<<r, g, b>> : r \in {0, 255}, g \in {0, 255}, b \in {0, 255}}

RasterWidth == 540
RasterHeight == 480
linesPerFrame == 525
levelSync == -40000
levelBlanking == 0
levelBlack == 7500
levelWhite == 100000
burstAmplitude == 20000

\* int(us * 1e-6 * sampleRate), us given in tenths of a microsecond
SamplesIn(us10, sr) == (us10 * (sr \div 1000)) \div 10000
lineSamples == ((synRate \div 1000) * 1001) \div 15750
hSyncSamples == SamplesIn(47, synRate)
vSyncPulseSamples == SamplesIn(271, synRate)
eqPulseSamples == SamplesIn(23, synRate)
burstStartSamples == SamplesIn(56, synRate)
burstEndSamples == burstStartSamples + SamplesIn(25, synRate)
activeStartSamples == SamplesIn(107, synRate)
activeSamples == SamplesIn(526, synRate)
NtscFrameLen == lineSamples * linesPerFrame

\* 10000 * sin(2*pi*j/704) for j = 0..176, and math.Sin / math.Cos at a
\* phase of j/704 cycle
SinQuarter == <<
    0, 89, 178, 268, 357, 446, 535, 624, 713, 802, 891, 980,
    1069, 1158, 1246, 1335, 1423, 1511, 1600, 1688, 1776, 1863, 1951, 2038,
    2126, 2213, 2300, 2386, 2473, 2559, 2646, 2732, 2817, 2903, 2988, 3073,
    3158, 3243, 3327, 3411, 3495, 3578, 3661, 3744, 3827, 3909, 3991, 4073,
    4154, 4235, 4316, 4396, 4476, 4556, 4635, 4714, 4792, 4871, 4948, 5026,
    5103, 5179, 5255, 5331, 5406, 5481, 5556, 5630, 5703, 5776, 5849, 5921,
    5993, 6064, 6135, 6205, 6275, 6344, 6413, 6481, 6549, 6616, 6682, 6749,
    6814, 6879, 6944, 7008, 7071, 7134, 7196, 7258, 7319, 7379, 7439, 7499,
    7557, 7616, 7673, 7730, 7786, 7842, 7897, 7952, 8005, 8059, 8111, 8163,
    8214, 8265, 8315, 8364, 8413, 8460, 8508, 8554, 8600, 8645, 8690, 8734,
    8777, 8819, 8861, 8902, 8942, 8982, 9021, 9059, 9096, 9133, 9169, 9204,
    9239, 9273, 9306, 9338, 9369, 9400, 9430, 9460, 9488, 9516, 9543, 9569,
    9595, 9620, 9644, 9667, 9689, 9711, 9732, 9752, 9771, 9790, 9808, 9825,
    9841, 9857, 9871, 9885, 9898, 9911, 9922, 9933, 9943, 9952, 9960, 9968,
    9975, 9980, 9986, 9990, 9994, 9996, 9998, 10000, 10000 >>
PhaseUnits == 704
RECURSIVE Sin(_)
Sin(j) ==
    LET k == j % PhaseUnits IN
    IF k <= 176 THEN SinQuarter[k + 1]
    ELSE IF k <= 352 THEN SinQuarter[352 - k + 1]
    ELSE -Sin(k - 352)
Cos(j) == Sin(j + 176)
\* 2*pi*fsc/sampleRate
phaseIncrement == (2520000 \div (synRate \div 1000)) % PhaseUnits

\* ntsc.go:87-114
VideoLine(line) ==
    IF line >= 22 /\ line <= 263 THEN (line - 22) * 2
    ELSE IF line >= 285 /\ line <= 525 THEN (line - 285) * 2 + 1
    ELSE 0
RasterX(s) ==
    IF s >= activeStartSamples
    THEN ((s - activeStartSamples) * RasterWidth) \div activeSamples
    ELSE -(((activeStartSamples - s) * RasterWidth) \div activeSamples)
RawPixel(row, col) == rawColour
\* ntsc.go:96: the lookup goes on to read rawFrameBuffer
ReadsRaster(line, s) ==
    ~(VideoLine(line) < 0 \/ VideoLine(line) >= RasterHeight
      \/ RasterX(s) < 0 \/ RasterX(s) >= RasterWidth)
getPixelYIQ(line, s) ==
    LET row == VideoLine(line)
        col == RasterX(s)
    IN  IF row < 0 \/ row >= RasterHeight \/ col < 0 \/ col >= RasterWidth
        THEN <<levelBlack, 0, 0>>
        ELSE LET r == RawPixel(row, col)[1]
                 g == RawPixel(row, col)[2]
                 b == RawPixel(row, col)[3]
                 yVal == 299 * r + 587 * g + 114 * b
                 iVal == 596 * r - 274 * g - 322 * b
                 qVal == 211 * r - 523 * g + 312 * b
                 span == (levelWhite - levelBlack) \div 100
             IN  <<levelBlack + Round(yVal * span, 2550),
                   Round(iVal * span, 2550),
                   Round(qVal * span, 2550)>>

\* ntsc.go:116-149
LineInField(line) ==
    IF line > linesPerFrame \div 2 THEN line - linesPerFrame \div 2 ELSE line
IsEqualizingLine(line) ==
    LineInField(line) \in (1..3) \cup (7..9)
IsVSyncLine(line) == LineInField(line) \in 4..6
InPulse(s, width) ==
    \/ s < width
    \/ s >= lineSamples \div 2 /\ s < lineSamples \div 2 + width
generateLumaLine(line) ==
    [s \in 0..(lineSamples - 1) |->
        IF IsEqualizingLine(line)
        THEN IF InPulse(s, eqPulseSamples) THEN levelSync ELSE levelBlanking
        ELSE IF IsVSyncLine(line)
        THEN IF InPulse(s, vSyncPulseSamples) THEN levelSync ELSE levelBlanking
        ELSE IF LineInField(line) > 21 /\ s >= activeStartSamples
                /\ s < activeStartSamples + activeSamples
        THEN getPixelYIQ(line, s)[1]
        ELSE IF s < hSyncSamples THEN levelSync
        ELSE levelBlanking]

\* ntsc.go:141-146: the samples for which generateLumaLine calls getPixelYIQ
LumaLookups(line) ==
    IF IsEqualizingLine(line) \/ IsVSyncLine(line) \/ LineInField(line) <= 21
    THEN {}
    ELSE activeStartSamples..(activeStartSamples + activeSamples - 1)

\* ntsc.go:68-81
IsVBIFirstFieldOnly(line) == line >= 1 /\ line <= 21
IsVBI(line) == (line >= 1 /\ line <= 21) \/ (line >= 264 /\ line <= 284)
Chroma(line, s, phase) ==
    IF s >= burstStartSamples /\ s < burstEndSamples
    THEN Round(burstAmplitude * Sin(phase + PhaseUnits \div 2), 10000)
    ELSE IF s >= activeStartSamples /\ s < activeStartSamples + activeSamples
    THEN Round(getPixelYIQ(line, s)[2] * Cos(phase)
               + getPixelYIQ(line, s)[3] * Sin(phase), 10000)
    ELSE 0

\* the samples of the composite frame that are followed: on line 22, the
\* sync tip, the back porch and the first active sample
TrackedIndexes ==
    {21 * lineSamples + s : s \in {0, hSyncSamples, activeStartSamples}}

notSyn == <<decVars, envVars, obsVars, dispVars, txVars, agcVars, stVars, rxVars>>

\* ntsc.go:63-66
SynBegin ==
    /\ synStage = "new"
    /\ synStage' = "luma"
    /\ synLine' = 1
    /\ subcarrierPhase' = 0
    /\ ntscFrameBuffer' = [i \in TrackedIndexes |-> 0]
    /\ UNCHANGED <<notSyn, synRate, rawColour, lineBuffer, ire, iSample>>

\* ntsc.go:67
SynLumaLine ==
    /\ synStage = "luma"
    /\ lineBuffer' = generateLumaLine(synLine)
    /\ synStage' = "chroma"
    /\ UNCHANGED <<notSyn, synRate, rawColour, synLine, subcarrierPhase,
                   ntscFrameBuffer, ire, iSample>>

\* ntsc.go:68-81
SynChromaLine ==
    /\ synStage = "chroma"
    /\ lineBuffer' =
          IF IsVBI(synLine) THEN lineBuffer
          ELSE [s \in DOMAIN lineBuffer |->
                   lineBuffer[s] + Chroma(synLine, s, subcarrierPhase + s * phaseIncrement)]
    /\ subcarrierPhase' = (subcarrierPhase + lineSamples * phaseIncrement) % PhaseUnits
    /\ synStage' = "store"
    /\ UNCHANGED <<notSyn, synRate, rawColour, synLine, ntscFrameBuffer, ire, iSample>>

\* ntsc.go:82-83: copy(n.ntscFrameBuffer[offset:], lineBuffer)
SynStoreLine ==
    /\ synStage = "store"
    /\ LET offset == (synLine - 1) * lineSamples IN
          ntscFrameBuffer' =
             [i \in DOMAIN ntscFrameBuffer |->
                 IF i >= offset /\ i - offset \in DOMAIN lineBuffer /\ i < NtscFrameLen
                 THEN lineBuffer[i - offset] ELSE ntscFrameBuffer[i]]
    /\ IF synLine = linesPerFrame
       THEN synStage' = "done" /\ synLine' = synLine
       ELSE synStage' = "luma" /\ synLine' = synLine + 1
    /\ UNCHANGED <<notSyn, synRate, rawColour, lineBuffer, subcarrierPhase, ire, iSample>>

\* ntsc.go:151-153, times 127: ((ire - 100)/-140 * 0.875 + 0.125) * 127 as
\* the fraction Amp127Num(ire) / 160000
Amp127Num(m) == (100000 - m) * 127 + 2540000
\* the float rounded to the nearest integer
Int8Rounded(n, d) ==
    IF Round(n, d) \in -128..127 THEN {Round(n, d)} ELSE -128..127
\* part_001:50: int8(amplitude * 127.0) truncates toward zero; the result
\* for a value that int8 cannot hold is implementation-dependent
Int8(n, d) ==
    LET t == IF n >= 0 THEN n \div d ELSE -((-n) \div d)
    IN  IF t \in -128..127 THEN {t} ELSE -128..127

\* part_001:48-54: the callback reads a sample of the frame and writes its I byte
SynTransmitSample ==
    /\ synStage \in {"done", "sent"}
    /\ \E i \in DOMAIN ntscFrameBuffer :
          /\ ire' = ntscFrameBuffer[i]
          /\ iSample' \in Int8(Amp127Num(ntscFrameBuffer[i]), 160000)
    /\ synStage' = "sent"
    /\ UNCHANGED <<notSyn, synRate, rawColour, synLine, lineBuffer, subcarrierPhase,
                   ntscFrameBuffer>>

InitSynth ==
    /\ New(LowSampleRate, Tracked)
    /\ InitObs
    /\ InitDisplayVars
    /\ InitTxVars("NTSC", TRUE)
    /\ \E sr \in SynRates : \E colour \in Colours : InitSynVars(sr, colour)
    /\ InitAgcVars
    /\ InitStVars("NTSC", 8000000)
    /\ InitRxVars
    /\ mode = "synthesize" /\ delta = 0 /\ tphase = 0 /\ lines = 0 /\ hiRun = 0

NextSynth ==
    SynBegin \/ SynLumaLine \/ SynChromaLine \/ SynStoreLine \/ SynTransmitSample

SpecSynth == InitSynth /\ [][NextSynth]_vars

\* C13: a sample at peak white (100 IRE) is sent as 16, blanking (0 IRE)
\* as 95 and sync tip (-40 IRE) as 127.
C13_IreToInt8 ==
    synStage = "sent" =>
        /\ ire = levelWhite => iSample = 16
        /\ ire = levelBlanking => iSample = 95
        /\ ire = levelSync => iSample = 127

(***************************************************************************)
(* The decoder's AGC: the part of ProcessIQ before the sample loop.  Every *)
(* float64 operation is one fixed-point operation rounded to 1/AgcScale.   *)
(***************************************************************************)
\* buffers the SDR read loop may hand to ProcessIQ: empty, a single byte,
\* one I/Q pair, two I/Q pairs
IQBuffers == {<<>>, <<127>>, <<128, 132>>, <<255, 127>>, <<127, 127>>,
              <<130, 131, 127, 122>>}

\* the largest r in lo..hi with r * r <= n
RECURSIVE Isqrt(_, _, _)
Isqrt(n, lo, hi) ==
    IF lo >= hi THEN lo
    ELSE LET mid == (lo + hi + 1) \div 2
         IN  IF mid * mid <= n THEN Isqrt(n, mid, hi) ELSE Isqrt(n, lo, mid - 1)
\* math.Sqrt, rounded to 1/AgcScale
Sqrt(n) ==
    LET r == Isqrt(n * AgcScale * AgcScale, 0, 182 * AgcScale)
    IN  IF (r + 1) * (r + 1) - n * AgcScale * AgcScale
           <= n * AgcScale * AgcScale - r * r THEN r + 1 ELSE r

\* decoder.go:84-86
Mag(buf, k) ==
    LET iqI == buf[2 * k - 1] - 127
        iqQ == buf[2 * k] - 127
    IN  Sqrt(iqI * iqI + iqQ * iqQ)
\* decoder.go:81-94
Mags(buf) == {Mag(buf, k) : k \in 1..(Len(buf) \div 2)}
Max(S) == CHOOSE m \in S : \A n \in S : n <= m
LocalMax(buf) == Max(Mags(buf) \cup {0})
LocalMin(buf) == Min(Mags(buf) \cup {255 * AgcScale})

\* decoder.go:95-96: smoothed*0.95 + local*0.05
SmoothedOvershoots(smoothed, local) == Round(smoothed * 95, 100) + Round(local * 10, 100)
Smoothed(smoothed, local) == Round(smoothed * 95, 100) + Round(local * 5, 100)

notAgc == <<decVars, envVars, obsVars, dispVars, txVars, synVars, stVars, rxVars>>

\* decoder.go:79-96
AgcUpdate ==
    /\ agcCalls < MaxAgcCalls
    /\ \E buf \in IQBuffers :
          /\ agcCalls < FreeAgcCalls \/ buf = iq
          /\ iq' = buf
          /\ localMax' = LocalMax(buf)
          /\ localMin' = LocalMin(buf)
          /\ smoothedMax' = Smoothed(smoothedMax, LocalMax(buf))
          /\ smoothedMin' = Smoothed(smoothedMin, LocalMin(buf))
    /\ prevSmoothedMax' = smoothedMax
    /\ prevSmoothedMin' = smoothedMin
    /\ agcCalls' = agcCalls + 1
    /\ UNCHANGED notAgc

InitAgc ==
    /\ New(LowSampleRate, Tracked)
    /\ InitObs
    /\ InitDisplayVars
    /\ InitTxVars("NTSC", TRUE)
    /\ InitSynVars(8000000, <<0, 0, 0>>)
    /\ InitAgcVars
    /\ InitStVars("NTSC", 8000000)
    /\ InitRxVars
    /\ mode = "agc" /\ delta = 0 /\ tphase = 0 /\ lines = 0 /\ hiRun = 0

NextAgc == AgcUpdate

SpecAgc == InitAgc /\ [][NextAgc]_vars

Within(lo, v, hi, slack) == lo - slack <= v /\ v <= hi + slack
AgcBound(slack) ==
    /\ Within(Min({localMax, prevSmoothedMax}), smoothedMax,
              Max({localMax, prevSmoothedMax}), slack)
    /\ Within(Min({localMin, prevSmoothedMin}), smoothedMin,
              Max({localMin, prevSmoothedMin}), slack)

IsPictureLine(line) == (line >= 22 /\ line <= 263) \/ (line >= 285 /\ line <= 525)
ActiveRange == activeStartSamples..(activeStartSamples + activeSamples - 1)
\* the line GenerateFullFrame is about to copy into the frame
LineIsFinal == synStage = "store"

\* C15: on every line in [22,263] or [285,525] of a synthesized frame,
\* every active-video sample lies in [levelBlack - burstAmplitude,
\* levelWhite + burstAmplitude] = [-12.5, 120] IRE.
C15_ActiveVideoRange ==
    LineIsFinal /\ IsPictureLine(synLine) =>
        \A s \in ActiveRange :
            /\ lineBuffer[s] >= levelBlack - burstAmplitude
            /\ lineBuffer[s] <= levelWhite + burstAmplitude

HalfLinePulses(width) ==
    {s \in 0..(lineSamples - 1) :
        \/ s < width
        \/ s >= lineSamples \div 2 /\ s < lineSamples \div 2 + width}
PulsesOnly(width) ==
    \A s \in DOMAIN lineBuffer :
        lineBuffer[s] = IF s \in HalfLinePulses(width) THEN levelSync ELSE levelBlanking
VSyncLines == (4..6) \cup {L \in 1..linesPerFrame : L - linesPerFrame \div 2 \in 4..6}
EqualizingLines ==
    (1..3) \cup (7..9)
    \cup {L \in 1..linesPerFrame : L - linesPerFrame \div 2 \in (1..3) \cup (7..9)}

\* C17: an NTSC vertical-sync line (4 to 6, and 266 to 268 in the second
\* field) goes into the frame with levelSync on the first
\* vSyncPulseSamples samples of each half-line, levelBlanking elsewhere.
C17_VSyncLines ==
    LineIsFinal /\ synLine \in VSyncLines =>
        /\ DOMAIN lineBuffer = 0..(lineSamples - 1)
        /\ PulsesOnly(vSyncPulseSamples)

\* a second-field vertical-sync line of a coloured raster is ready
C17_Witness ==
    /\ LineIsFinal
    /\ synLine = 267
    /\ rawColour = <<255, 255, 0>>
    /\ lineBuffer[vSyncPulseSamples - 1] = levelSync
    /\ lineBuffer[vSyncPulseSamples] = levelBlanking
    /\ lineBuffer[lineSamples \div 2] = levelSync

\* C18: an NTSC equalizing line (1 to 3, 7 to 9, and the lines of the
\* second field with the same numbers in their field) goes into the frame
\* with levelSync on [0, eqPulseSamples) and on [lineSamples/2,
\* lineSamples/2 + eqPulseSamples), levelBlanking elsewhere; at 8 MHz these
\* are [0,18) and [254,272) of 508 samples.
C18_EqualizingLines ==
    /\ synRate = 8000000 =>
          /\ lineSamples = 508
          /\ HalfLinePulses(eqPulseSamples) = (0..17) \cup (254..271)
    /\ LineIsFinal /\ synLine \in EqualizingLines =>
          /\ DOMAIN lineBuffer = 0..(lineSamples - 1)
          /\ PulsesOnly(eqPulseSamples)

ClaimedRow(line) ==
    IF line >= 22 /\ line <= 263 THEN (line - 22) * 2 ELSE (line - 285) * 2 + 1
ClaimedColumn(s) == ((s - activeStartSamples) * RasterWidth) \div activeSamples
Black == <<levelBlack, 0, 0>>

\* C21: a pixel lookup on a line of 22..263 uses row (L-22)*2, one on a
\* line of 285..525 row (L-285)*2+1; a lookup on any other line, or with
\* the row or the column outside the raster, returns black without reading
\* the raster; and a line outside the two ranges holds nothing but sync,
\* blanking and black.
C21_RasterMapping ==
    LineIsFinal =>
        /\ \A s \in LumaLookups(synLine) :
              /\ IsPictureLine(synLine) => VideoLine(synLine) = ClaimedRow(synLine)
              /\ RasterX(s) = ClaimedColumn(s)
              /\ \/ ~IsPictureLine(synLine)
                 \/ ClaimedRow(synLine) \notin 0..(RasterHeight - 1)
                 \/ ClaimedColumn(s) \notin 0..(RasterWidth - 1)
                 => ~ReadsRaster(synLine, s) /\ getPixelYIQ(synLine, s) = Black
        /\ ~IsPictureLine(synLine) =>
              \A s \in DOMAIN lineBuffer :
                  lineBuffer[s] \in {levelSync, levelBlanking, levelBlack}

(***************************************************************************)
(* GenerateFullFrame of either standard, reduced to the copies it makes    *)
(* into the frame buffer: for each line, the length of the line buffer it  *)
(* has built and the range of the frame the copy fills.                    *)
(***************************************************************************)
\* ntsc.go:39, 48-49, 58; pal.go:39, 48-49, 58
StLinesPerFrame == IF stStandard = "NTSC" THEN 525 ELSE 625
StLineSamples ==
    IF stStandard = "NTSC" THEN ((stRate \div 1000) * 1001) \div 15750
    ELSE stRate \div 15625
StFrameLen == StLineSamples * StLinesPerFrame

notSt == <<decVars, envVars, obsVars, dispVars, txVars, synVars, agcVars, rxVars>>

\* ntsc.go:67-81, 117; pal.go:69-90, 130: generateLumaLine makes a slice
\* of lineSamples values, the chroma loop adds to its elements
StoreGenerateLine ==
    /\ stStage = "generate"
    /\ stLineLen' = StLineSamples
    /\ stStage' = "chroma"
    /\ UNCHANGED <<notSt, stStandard, stRate, stLine, stWrites, vToggle, stLineLog>>

\* pal.go:70, 145
PalIsVBI(line) == (line >= 624 \/ line <= 23) \/ (line >= 311 /\ line <= 336)
\* pal.go:100-107; -1 where getPixelYUV returns black at once
PalVideoLine(line) ==
    IF line >= 24 /\ line <= 310 THEN line - 24
    ELSE IF line >= 337 /\ line <= 623 THEN line - 337 + 576 \div 2
    ELSE -1
\* pal.go:145-152, 111: the raster row generateLumaLine takes the line's
\* luma from, -1 if it reads none
PalSourceRow(line) ==
    IF ~PalIsVBI(line) /\ PalVideoLine(line) >= 0 /\ PalVideoLine(line) < RasterHeight
    THEN PalVideoLine(line) ELSE -1
\* ntsc.go:141-146, 96: the same for NTSC
NtscSourceRow(line) ==
    IF \E s \in LumaLookups(line) : ReadsRaster(line, s) THEN VideoLine(line) ELSE -1
\* pal.go:75-78
burstPhaseOffset(line) == IF line % 2 = 0 THEN -135 ELSE 135

\* pal.go:70-91, ntsc.go:68-81: the chroma pass; PAL computes the burst
\* offset of a line outside the blanking interval
StoreChromaLine ==
    /\ stStage = "chroma"
    /\ stLineLog' = Append(stLineLog,
          IF stStandard = "PAL"
          THEN [burst |-> IF PalIsVBI(stLine) THEN 0 ELSE burstPhaseOffset(stLine),
                vToggle |-> vToggle,
                row |-> PalSourceRow(stLine)]
          ELSE [burst |-> 0, vToggle |-> vToggle, row |-> NtscSourceRow(stLine)])
    /\ stStage' = "copy"
    /\ UNCHANGED <<notSt, stStandard, stRate, stLine, stLineLen, stWrites, vToggle>>

\* pal.go:95
NextVToggleOutsideVBI(line, v) == IF PalIsVBI(line) THEN v ELSE -v
NextVToggle(line, v) == -v

\* ntsc.go:82, pal.go:92
StoreOffsetOfNextLine(line) == line * StLineSamples
StoreOffset(line) == (line - 1) * StLineSamples

\* ntsc.go:83, pal.go:94-95: copy(frameBuffer[offset:], lineBuffer) copies
\* min(len(frameBuffer) - offset, len(lineBuffer)) values; PAL flips vToggle
StoreCopyLine ==
    /\ stStage = "copy"
    /\ StoreOffset(stLine) <= StFrameLen
    /\ stWrites' = Append(stWrites, <<StoreOffset(stLine),
                                      Min({StFrameLen - StoreOffset(stLine), stLineLen})>>)
    /\ IF stLine = StLinesPerFrame
       THEN stStage' = "done" /\ stLine' = stLine
       ELSE stStage' = "generate" /\ stLine' = stLine + 1
    /\ vToggle' = IF stStandard = "PAL" THEN NextVToggle(stLine, vToggle) ELSE vToggle
    /\ UNCHANGED <<notSt, stStandard, stRate, stLineLen, stLineLog>>

InitStore ==
    /\ New(LowSampleRate, Tracked)
    /\ InitObs
    /\ InitDisplayVars
    /\ InitTxVars("NTSC", TRUE)
    /\ InitSynVars(8000000, <<0, 0, 0>>)
    /\ InitAgcVars
    /\ \E std \in {"NTSC", "PAL"} : \E sr \in SynRates : InitStVars(std, sr)
    /\ InitRxVars
    /\ mode = "store" /\ delta = 0 /\ tphase = 0 /\ lines = 0 /\ hiRun = 0

NextStore == StoreGenerateLine \/ StoreChromaLine \/ StoreCopyLine

SpecStore == InitStore /\ [][NextStore]_vars

\* C16: the k-th copy of a GenerateFullFrame writes exactly lineSamples
\* values at offset (k-1)*lineSamples, and when the call is over there has
\* been one copy per line, so that the copies tile the frame buffer: each
\* of its lineSamples*linesPerFrame indexes written once, none outside.
C16_FullFrameOverwrite ==
    /\ \A k \in 1..Len(stWrites) :
          stWrites[k] = <<(k - 1) * StLineSamples, StLineSamples>>
    /\ stStage = "done" =>
          /\ Len(stWrites) = StLinesPerFrame
          /\ stWrites[Len(stWrites)][1] + stWrites[Len(stWrites)][2] = StFrameLen

\* a PAL frame has been generated
C16_Witness ==
    /\ stStage = "done"
    /\ stStandard = "PAL"
    /\ Len(stWrites) = 625
    /\ stWrites[625] = <<624 * StLineSamples, StLineSamples>>

Sign(v) == IF v > 0 THEN 1 ELSE IF v < 0 THEN -1 ELSE 0
ClaimedBurst(line) == IF line % 2 = 1 THEN 135 ELSE -135

\* C22: in a PAL frame the burst of an odd line is offset by +135 degrees,
\* that of an even line by -135 degrees, so the offsets of lines L, L+1 of
\* an odd/even pair outside the blanking interval differ by 270 degrees;
\* vToggle is +1 on line 1 and flips after every line, so on every line it
\* has the sign of the line's burst offset.
C22_PalSwingingBurst ==
    stStandard = "PAL" =>
        /\ \A k \in 1..Len(stLineLog) :
              /\ ~PalIsVBI(k) => stLineLog[k].burst = ClaimedBurst(k)
              /\ stLineLog[k].vToggle = Sign(ClaimedBurst(k))
              /\ stLineLog[k].burst # 0 =>
                    Sign(stLineLog[k].vToggle) = Sign(stLineLog[k].burst)
              /\ k % 2 = 1 /\ k + 1 <= Len(stLineLog) /\ ~PalIsVBI(k) /\ ~PalIsVBI(k + 1) =>
                    stLineLog[k].burst - stLineLog[k + 1].burst = 270
        /\ Len(stLineLog) = 0 => vToggle = 1
        /\ stStage = "chroma" => vToggle = Sign(ClaimedBurst(stLine))

\* the first picture line after the second blanking interval of a PAL frame
C22_Witness ==
    /\ stStandard = "PAL"
    /\ stStage = "copy"
    /\ stLine = 337
    /\ stLineLog[336].burst = 0
    /\ stLineLog[337] = [burst |-> 135, vToggle |-> 1, row |-> 288]
    /\ stLineLog[24].burst = -135 /\ stLineLog[24].vToggle = -1

LinesOfRow(r) == {k \in 1..Len(stLineLog) : stLineLog[k].row = r}
RowsCovered == \A r \in 0..(RasterHeight - 1) : LinesOfRow(r) # {}
RowsCoveredOnce == \A r \in 0..(RasterHeight - 1) : Cardinality(LinesOfRow(r)) = 1

\* C30: when a frame of either standard has been generated, every row of
\* the raster has been the source row of at least one of its lines, and in
\* NTSC of exactly one line: the even rows by the lines of the first field,
\* the odd rows by the lines of the second.
C30_RasterRowCoverage ==
    stStage = "done" =>
        /\ RowsCovered
        /\ stStandard = "NTSC" =>
              /\ RowsCoveredOnce
              /\ \A k \in 1..Len(stLineLog) :
                    stLineLog[k].row >= 0 => (stLineLog[k].row % 2 = 0 <=> k <= 263)

(***************************************************************************)
(* rtl_tv: main's display loop, its deferred calls, and the SDR read       *)
(* goroutine.  The user may close the ffplay window and may send SIGINT or *)
(* SIGTERM at any time.                                                    *)
(***************************************************************************)
notRx == <<decVars, envVars, obsVars, dispVars, txVars, synVars, agcVars, stVars>>
rxEnv == <<shutdown, playerAlive>>
Running == rxMain # "exited"

\* the user closes the ffplay window: the player exits
RxPlayerCloses ==
    /\ Running
    /\ playerAlive
    /\ playerAlive' = FALSE
    /\ UNCHANGED <<notRx, rxMain, rxReader, rxCause, shutdown, frameTicker, pipeOpen,
                   dongleOpen, framesWritten, rxLog>>

\* part_002:422-423: SIGINT or SIGTERM is delivered to the channel of
\* capacity one
RxSignal ==
    /\ Running
    /\ ~shutdown
    /\ shutdown' = TRUE
    /\ UNCHANGED <<notRx, rxMain, rxReader, rxCause, frameTicker, pipeOpen, playerAlive,
                   dongleOpen, framesWritten, rxLog>>

\* part_002:429-430: the ticker case is taken, GetDisplayFrame returns
RxTick ==
    /\ rxMain = "select"
    /\ frameTicker
    /\ framesWritten < MaxFrames
    /\ rxMain' = "write"
    /\ UNCHANGED <<notRx, rxEnv, rxReader, rxCause, frameTicker, pipeOpen, dongleOpen,
                   framesWritten, rxLog>>

\* part_002:431: the frame is written to the player's stdin
RxWriteFrame ==
    /\ rxMain = "write"
    /\ pipeOpen /\ playerAlive
    /\ framesWritten' = framesWritten + 1
    /\ rxMain' = "select"
    /\ UNCHANGED <<notRx, rxEnv, rxReader, rxCause, frameTicker, pipeOpen, dongleOpen, rxLog>>

\* a main loop that logs the failed write and goes on
RxWriteFailsAndGoesOn ==
    /\ rxMain = "write"
    /\ rxCause' = "writeError"
    /\ rxMain' = "select"
    /\ UNCHANGED <<notRx, rxEnv, rxReader, frameTicker, pipeOpen, dongleOpen,
                   framesWritten, rxLog>>

\* part_002:431-433: the write returns an error (it must when the player
\* has gone); main returns
RxWriteFails ==
    /\ rxMain = "write"
    /\ rxCause' = "writeError"
    /\ rxMain' = "frameTicker.Stop"
    /\ UNCHANGED <<notRx, rxEnv, rxReader, frameTicker, pipeOpen, dongleOpen,
                   framesWritten, rxLog>>

\* part_002:435-437: the shutdown case is taken; main returns
RxShutdown ==
    /\ rxMain = "select"
    /\ shutdown
    /\ shutdown' = FALSE
    /\ rxCause' = "signal"
    /\ rxMain' = "frameTicker.Stop"
    /\ UNCHANGED <<notRx, rxReader, frameTicker, pipeOpen, playerAlive, dongleOpen,
                   framesWritten, rxLog>>

\* part_002:421: the last defer registered runs first
RxStopTicker ==
    /\ rxMain = "frameTicker.Stop"
    /\ frameTicker' = FALSE
    /\ rxLog' = Append(rxLog, "frameTicker.Stop")
    /\ rxMain' = "Pipe.Close"
    /\ UNCHANGED <<notRx, rxEnv, rxReader, rxCause, pipeOpen, dongleOpen, framesWritten>>

\* part_002:397, ffplay.go:54
RxClosePipe ==
    /\ rxMain = "Pipe.Close"
    /\ pipeOpen' = FALSE
    /\ rxLog' = Append(rxLog, "Pipe.Close")
    /\ rxMain' = "Process.Kill"
    /\ UNCHANGED <<notRx, rxEnv, rxReader, rxCause, frameTicker, dongleOpen, framesWritten>>

\* ffplay.go:55
RxKillPlayer ==
    /\ rxMain = "Process.Kill"
    /\ playerAlive' = FALSE
    /\ rxLog' = Append(rxLog, "Process.Kill")
    /\ rxMain' = "dongle.Close"
    /\ UNCHANGED <<notRx, shutdown, rxReader, rxCause, frameTicker, pipeOpen, dongleOpen,
                   framesWritten>>

\* part_002:390: the first defer registered runs last; main has returned
RxCloseDongle ==
    /\ rxMain = "dongle.Close"
    /\ dongleOpen' = FALSE
    /\ rxLog' = Append(rxLog, "dongle.Close")
    /\ rxMain' = "exited"
    /\ UNCHANGED <<notRx, rxEnv, rxReader, rxCause, frameTicker, pipeOpen, framesWritten>>

\* part_002:408, 413-414: ReadSync returns samples
RxReaderRead ==
    /\ Running
    /\ rxReader = "read"
    /\ dongleOpen
    /\ rxReader' = "ProcessIQ"
    /\ UNCHANGED <<notRx, rxEnv, rxMain, rxCause, frameTicker, pipeOpen, dongleOpen,
                   framesWritten, rxLog>>

\* part_002:414: ProcessIQ returns
RxReaderProcessed ==
    /\ Running
    /\ rxReader = "ProcessIQ"
    /\ rxReader' = "read"
    /\ UNCHANGED <<notRx, rxEnv, rxMain, rxCause, frameTicker, pipeOpen, dongleOpen,
                   framesWritten, rxLog>>

\* part_002:409-411: ReadSync returns an error; the goroutine returns
RxReaderStops ==
    /\ Running
    /\ rxReader = "read"
    /\ rxReader' = "stopped"
    /\ UNCHANGED <<notRx, rxEnv, rxMain, rxCause, frameTicker, pipeOpen, dongleOpen,
                   framesWritten, rxLog>>

InitRx ==
    /\ New(LowSampleRate, Tracked)
    /\ InitObs
    /\ InitDisplayVars
    /\ InitTxVars("NTSC", TRUE)
    /\ InitSynVars(8000000, <<0, 0, 0>>)
    /\ InitAgcVars
    /\ InitStVars("NTSC", 8000000)
    /\ InitRxVars
    /\ mode = "receive" /\ delta = 0 /\ tphase = 0 /\ lines = 0 /\ hiRun = 0

RxDeferred == RxStopTicker \/ RxClosePipe \/ RxKillPlayer \/ RxCloseDongle

NextRx ==
    \/ RxPlayerCloses \/ RxSignal
    \/ RxTick \/ RxWriteFrame \/ RxWriteFails \/ RxShutdown
    \/ RxStopTicker \/ RxClosePipe \/ RxKillPlayer \/ RxCloseDongle
    \/ RxReaderRead \/ RxReaderProcessed \/ RxReaderStops

SpecRx == InitRx /\ [][NextRx]_vars

\* a function that returns runs its deferred calls
SpecRxLive == SpecRx /\ WF_vars(RxDeferred)

ShutdownOrder == <<"Pipe.Close", "Process.Kill", "dongle.Close">>
IsPrefix(p, q) == Len(p) <= Len(q) /\ \A i \in 1..Len(p) : p[i] = q[i]
IsShutdownCall(e) == e \in {ShutdownOrder[i] : i \in 1..Len(ShutdownOrder)}
ShutdownCalls == SelectSeq(rxLog, IsShutdownCall)

\* C20: a write of a frame to the player's stdin that fails ends main's
\* loop: no frame is written afterwards, and the process shuts down by
\* closing the player's pipe, killing the player and closing the SDR
\* device, in this order, which is also what a SIGINT or SIGTERM makes it do.
C20_DisplayPipeFailure ==
    /\ [][rxMain = "write" /\ rxMain' # "write" /\ framesWritten' = framesWritten =>
             rxCause' = "writeError" /\ rxMain' # "select"]_vars
    /\ [][rxCause = "writeError" => framesWritten' = framesWritten /\ rxMain' # "write"]_vars
    /\ [](IsPrefix(ShutdownCalls, ShutdownOrder))
    /\ [](rxMain = "exited" =>
             /\ rxCause \in {"writeError", "signal"}
             /\ ShutdownCalls = ShutdownOrder
             /\ ~pipeOpen /\ ~playerAlive /\ ~dongleOpen)
    /\ [](rxCause # "none" => <>(rxMain = "exited"))

\* the window was closed after some frames, the next write failed and main
\* has shut down
C20_Witness ==
    /\ rxMain = "exited"
    /\ rxCause = "writeError"
    /\ framesWritten > 0
    /\ ShutdownCalls = ShutdownOrder

\* the same shutdown after a signal
C20_WitnessSignal ==
    /\ rxMain = "exited"
    /\ rxCause = "signal"
    /\ ShutdownCalls = ShutdownOrder

TypeOK ==
    /\ x >= 0
    /\ y \in 0..FrameHeight
====
